---------------------------- MODULE Spec2Model ----------------------------
(***************************************************************************)
(* A model of the Scrabble game server (scrabble-server).                  *)
(*                                                                         *)
(* State: the room registry (RoomStore), the rooms with their player       *)
(* objects and game states (GameService), the socket bindings              *)
(* (WebSocketServer), the clock read by Date.now(), the plays suspended at *)
(* the dictionary lookup, and the messages emitted by the latest step.     *)
(*                                                                         *)
(* Granularity: one action is one task of the Node event loop.  An await   *)
(* on a promise that is already resolved (advanceTurn, broadcastGameState, *)
(* socket.leave) continues in the microtask queue of the same task, before *)
(* any other socket event or timer, and is part of the action.  The await  *)
(* of WordValidator.isWordValid is the one place where a handler is really *)
(* suspended: the interface returns a Promise (WordValidatorHttp fetches), *)
(* so a play is split into SubmitPlay (up to the await) and ResumePlay     *)
(* (from the verdict on).  handleLeaveRoom is split at its await of the    *)
(* forced pass into LeaveRoom and LeaveRoomRemove; the second step runs    *)
(* before any other task (variable cont).                                  *)
(*                                                                         *)
(* Time: the unit of the clock is one turn duration (120 s); the clock is  *)
(* read where it matters, at the first instant after a turn deadline.      *)
(* Tiles: a game is played with a sample of the EN distribution, seven     *)
(* tiles per player and BagExtra more.                                     *)
(*                                                                         *)
(* Specifications: Spec is a long game (every kind of move, timer,         *)
(* leaveRoom, up to both endings) on a few well-formed inputs; SpecShort   *)
(* is a short game on inputs that reach every check of playMove; SpecNet   *)
(* closes and rebinds sockets around a short game of passes; SpecThree is  *)
(* a room of three players passing, timing out and leaving; SpecLobby      *)
(* starts from the empty registry and runs createRoom, joinRoom,           *)
(* toggleReady, startGame and leaveRoom; SpecIdle lets a waiting room age  *)
(* up to the idle sweep while its sockets close and rebind; SpecLive is    *)
(* the room of three players with time that never stops and a fair turn   *)
(* tick; SpecBind runs the messages that bind sockets to players while    *)
(* the sockets close; SpecStatus is a game of passes up to its end with    *)
(* startGame and toggleReady sent at any time.                             *)
(***************************************************************************)
EXTENDS Integers, Sequences, FiniteSets, TLC

(***************************************************************************)
(* Bounds of the model                                                     *)
(***************************************************************************)
\* tiles left in the bag after the racks are dealt
BagExtra == 2
\* the clock runs from 0 to MaxNow
MaxNow == 2
\* moves are submitted while version < MaxVersion
MaxVersion == 7
\* plays suspended at the dictionary lookup at the same time
MaxInFlight == 1
\* outcomes of Math.random() that a shuffle may draw from
NumSeeds == 1
\* plays are submitted while fewer than MaxPlays plays are logged
MaxPlays == 2
\* exchanges are submitted while fewer than MaxExchanges exchanges are logged
MaxExchanges == 1
\* a short game is played while the version is below MaxShortVersion
MaxShortVersion == 3
\* the clock of the idle rooms runs from 0 to MaxLobbyNow
MaxLobbyNow == 16

(***************************************************************************)
(* Program constants                                                       *)
(***************************************************************************)
BOARD_SIZE == 15
RACK_SIZE == 7
BINGO_BONUS == 50
CENTER == 7
\* TURN_DURATION_MS = 120_000; the unit of the model's clock is 120 s
TURN_DURATION == 1
MAX_CONSECUTIVE_PASSES == 6
\* ROOM_IDLE_CLEANUP_MS = 30 * 60_000, in units of 120 s
ROOM_IDLE_CLEANUP == 15
\* nickname.slice(0, 15)
NICKNAME_MAX == 15
\* Math.max(1, Math.min(4, maxPlayers))
MIN_ROOM_PLAYERS == 1
MAX_ROOM_PLAYERS == 4

RoomIds == {"R1"}
PlayerIds == {"p1", "p2"}
Conns == {"c1", "c2"}
\* the player ids and the sockets of the rooms of three
Seats == PlayerIds \cup {"p3"}
Sockets == Conns \cup {"c3"}

NoGame == [none |-> TRUE]
NoConn == "-"
NoPlayer == "-"
\* the id of a tile object that has none: {...undefined, fromPlayerId, turnPlayed}
NoId == 0
\* the number that is not a number: Math.min and Math.max of a payload value
\* that is no number; no number of the model is negative
NaN == -1

\* nicknames are strings, the sequences of their characters
Ann == <<"A", "n", "n">>
ANN == <<"A", "N", "N">>
Bob == <<"B", "o", "b">>
Cid == <<"C", "i", "d">>
\* a nickname that is missing or empty: !nickname
NoNick == <<>>

(***************************************************************************)
(* Sequence helpers                                                        *)
(***************************************************************************)
Range(s) == {s[i] : i \in DOMAIN s}

RECURSIVE SumSeq(_)
SumSeq(s) == IF s = <<>> THEN 0 ELSE Head(s) + SumSeq(Tail(s))

\* Array.prototype.filter
RECURSIVE Filter(_, _)
Filter(s, keep) ==
  IF s = <<>> THEN <<>>
  ELSE IF Head(s) \in keep THEN <<Head(s)>> \o Filter(Tail(s), keep)
       ELSE Filter(Tail(s), keep)

\* Array.prototype.findIndex, 1-based, 0 when there is none
RECURSIVE FindIndexFrom(_, _, _)
FindIndexFrom(s, v, i) ==
  IF i > Len(s) THEN 0
  ELSE IF s[i] = v THEN i ELSE FindIndexFrom(s, v, i + 1)

FindIndex(s, v) == FindIndexFrom(s, v, 1)

Min(S) == CHOOSE m \in S : \A n \in S : m <= n
Max(S) == CHOOSE m \in S : \A n \in S : m >= n

\* the comparisons and Math.min, Math.max of numbers one of which may be NaN
Greater(a, b) == a # NaN /\ b # NaN /\ a > b
GreaterEq(a, b) == a # NaN /\ b # NaN /\ a >= b
MathMin(a, b) == IF a = NaN \/ b = NaN THEN NaN ELSE IF a < b THEN a ELSE b
MathMax(a, b) == IF a = NaN \/ b = NaN THEN NaN ELSE IF a > b THEN a ELSE b

\* String.prototype.toLowerCase on the alphabet of the nicknames
UpperCase == <<"A", "B", "C", "N", "O">>
LowerCase == <<"a", "b", "c", "n", "o">>
toLowerCase(s) ==
  [i \in DOMAIN s |->
     IF \E k \in DOMAIN UpperCase : UpperCase[k] = s[i]
     THEN LowerCase[CHOOSE k \in DOMAIN UpperCase : UpperCase[k] = s[i]]
     ELSE s[i]]

\* String.prototype.slice(0, n)
slice(s, n) == SubSeq(s, 1, IF Len(s) < n THEN Len(s) ELSE n)


(***************************************************************************)
(* config/constants: letter distribution and bonus layout                  *)
(***************************************************************************)
Def(l, c, v) == [letter |-> l, count |-> c, value |-> v, isJoker |-> FALSE]

\* getLetterDistribution('EN'); LANGUAGE defaults to 'EN'
LetterDistribution ==
  << Def("A", 9, 1), Def("B", 2, 3), Def("C", 2, 3), Def("D", 4, 2),
     Def("E", 12, 1), Def("F", 2, 4), Def("G", 3, 2), Def("H", 2, 4),
     Def("I", 9, 1), Def("J", 1, 8), Def("K", 1, 5), Def("L", 4, 1),
     Def("M", 2, 3), Def("N", 6, 1), Def("O", 8, 1), Def("P", 2, 3),
     Def("Q", 1, 10), Def("R", 6, 1), Def("S", 4, 1), Def("T", 6, 1),
     Def("U", 4, 1), Def("V", 2, 4), Def("W", 2, 4), Def("X", 1, 8),
     Def("Y", 2, 4), Def("Z", 1, 10),
     [letter |-> "", count |-> 2, value |-> 0, isJoker |-> TRUE] >>

\* the tiles startNewGame pushes, in order: def.count tiles of every def
RECURSIVE ExpandDefs(_)
ExpandDefs(defs) ==
  IF defs = <<>> THEN <<>>
  ELSE [i \in 1..Head(defs).count |->
          [letter |-> Head(defs).letter, value |-> Head(defs).value,
           isJoker |-> Head(defs).isJoker]] \o ExpandDefs(Tail(defs))

FullBag == ExpandDefs(LetterDistribution)

\* The model plays with NumTiles(n) of the 100 tiles, enough to deal n racks
\* and leave BagExtra tiles: tile id k is the tile pushed at place
\* Len(FullBag) - (k - 1) * Stride, so that the sample spans the
\* distribution, jokers included.  TileIds are the tiles of a game of two;
\* a game of three goes on through the distribution from its end again.
NumTiles(n) == RACK_SIZE * n + BagExtra
MaxTiles == NumTiles(Cardinality(PlayerIds))
Stride == Len(FullBag) \div MaxTiles
TileIds == 1..MaxTiles
AllTileIds == 1..NumTiles(Cardinality(Seats))

TileDefs ==
  [k \in AllTileIds |-> FullBag[Len(FullBag) - (((k - 1) * Stride) % Len(FullBag))]]

\* attributes of the tile object with this id; the object built from
\* {...undefined} has none: letter and value undefined, isJoker falsy
TileLetter(id) == IF id = NoId THEN "" ELSE TileDefs[id].letter
TileValue(id) == IF id = NoId THEN 0 ELSE TileDefs[id].value
TileIsJoker(id) == IF id = NoId THEN FALSE ELSE TileDefs[id].isJoker

\* generateBonusLayout(): cells as <<x, y>>
TW == { <<0,0>>, <<0,7>>, <<0,14>>, <<7,0>>, <<7,14>>, <<14,0>>, <<14,7>>, <<14,14>> }
DW == { <<1,1>>, <<2,2>>, <<3,3>>, <<4,4>>, <<10,10>>, <<11,11>>, <<12,12>>, <<13,13>>,
        <<1,13>>, <<2,12>>, <<3,11>>, <<4,10>>, <<10,4>>, <<11,3>>, <<12,2>>, <<13,1>>,
        <<7,7>> }
TL == { <<1,5>>, <<1,9>>, <<5,1>>, <<5,5>>, <<5,9>>, <<5,13>>,
        <<9,1>>, <<9,5>>, <<9,9>>, <<9,13>>, <<13,5>>, <<13,9>> }
DL == { <<0,3>>, <<0,11>>, <<2,6>>, <<2,8>>, <<3,0>>, <<3,7>>, <<3,14>>,
        <<6,2>>, <<6,6>>, <<6,8>>, <<6,12>>, <<7,3>>, <<7,11>>,
        <<8,2>>, <<8,6>>, <<8,8>>, <<8,12>>, <<11,0>>, <<11,7>>, <<11,14>>,
        <<12,6>>, <<12,8>>, <<14,3>>, <<14,11>> }

\* board[b.y][b.x].bonus = b.bonus, painted in the order TW, DW, TL, DL
Bonus(c) ==
  IF c \in DL THEN "DL" ELSE IF c \in TL THEN "TL"
  ELSE IF c \in DW THEN "DW" ELSE IF c \in TW THEN "TW" ELSE "none"

(***************************************************************************)
(* GameService helpers: the rules of a play.  A board is a function from   *)
(* the occupied cells <<x, y>> to the tile object on the cell.  A          *)
(* placement is [x, y, tileId].                                            *)
(***************************************************************************)
InBounds(c) == c[1] >= 0 /\ c[1] < BOARD_SIZE /\ c[2] >= 0 /\ c[2] < BOARD_SIZE
HasTile(b, c) == c \in DOMAIN b
PCell(pl) == <<pl.x, pl.y>>
PlacedAt(pls, c) == \E i \in DOMAIN pls : PCell(pls[i]) = c

boardIsEmpty(b) == DOMAIN b = {}

\* first loop of the play branch: bounds, then occupancy, placement by placement
RECURSIVE CheckCells(_, _)
CheckCells(b, pls) ==
  IF pls = <<>> THEN "OK"
  ELSE IF ~InBounds(PCell(Head(pls))) THEN "OUT_OF_BOUNDS"
  ELSE IF HasTile(b, PCell(Head(pls))) THEN "CELL_OCCUPIED"
  ELSE CheckCells(b, Tail(pls))

\* second loop: every tile id in the rack, none used twice
RECURSIVE CheckTiles(_, _, _)
CheckTiles(rackIds, pls, used) ==
  IF pls = <<>> THEN "OK"
  ELSE IF Head(pls).tileId \notin rackIds THEN "TILE_NOT_IN_RACK"
  ELSE IF Head(pls).tileId \in used THEN "DUPLICATE_TILE"
  ELSE CheckTiles(rackIds, Tail(pls), used \cup {Head(pls).tileId})

SameRow(pls) == \A i \in DOMAIN pls : pls[i].y = pls[1].y
SameCol(pls) == \A i \in DOMAIN pls : pls[i].x = pls[1].x
Direction(pls) == IF SameRow(pls) THEN "row" ELSE "col"

\* placementInfo: a Map keyed by "x,y"; a later placement on the same cell
\* replaces the earlier entry
RECURSIVE PlacementInfo(_, _)
PlacementInfo(pls, acc) ==
  IF pls = <<>> THEN acc
  ELSE PlacementInfo(Tail(pls),
         [c \in DOMAIN acc \cup {PCell(Head(pls))} |->
            IF c = PCell(Head(pls))
            THEN [value |-> TileValue(Head(pls).tileId),
                  letter |-> TileLetter(Head(pls).tileId)]
            ELSE acc[c]])

EmptyMap == [c \in {} |-> 0]

\* the letter a cell adds to a word: t.isJoker ? '?' : (t.letter || '')
BoardLetter(b, c) == IF TileIsJoker(b[c].id) THEN "?" ELSE TileLetter(b[c].id)
\* (info?.letter ?? '') === '' ? '?' : (info?.letter || '#')
InfoLetter(info, c) ==
  IF c \notin DOMAIN info THEN "?"
  ELSE IF info[c].letter = "" THEN "?" ELSE info[c].letter

\* the cell at place i of a line: a row y (cells <<i, y>>) or a column x
LineCell(dir, line, i) == IF dir = "row" THEN <<i, line>> ELSE <<line, i>>

\* while (x0 - 1 >= 0 && board[y][x0 - 1].tile) x0--
RECURSIVE ExpandDown(_, _, _, _)
ExpandDown(b, dir, line, i) ==
  IF i - 1 >= 0 /\ HasTile(b, LineCell(dir, line, i - 1))
  THEN ExpandDown(b, dir, line, i - 1) ELSE i

\* while (x1 + 1 < 15 && board[y][x1 + 1].tile) x1++
RECURSIVE ExpandUp(_, _, _, _)
ExpandUp(b, dir, line, i) ==
  IF i + 1 < BOARD_SIZE /\ HasTile(b, LineCell(dir, line, i + 1))
  THEN ExpandUp(b, dir, line, i + 1) ELSE i

\* letters.join(''): the letters of the cells lo..hi of a line, a cell that is
\* neither occupied nor placed adding ''
RECURSIVE Letters(_, _, _, _, _, _, _)
Letters(b, pls, info, dir, line, i, hi) ==
  IF i > hi THEN <<>>
  ELSE LET c == LineCell(dir, line, i)
           ch == IF HasTile(b, c) THEN BoardLetter(b, c)
                 ELSE IF PlacedAt(pls, c) THEN InfoLetter(info, c) ELSE ""
       IN (IF ch = "" THEN <<>> ELSE <<ch>>)
          \o Letters(b, pls, info, dir, line, i + 1, hi)

\* neighbours that take the diagonal cells too: BoardConnected does not hold
\* of them
NeighboursDiagonal(c) ==
  { n \in { <<c[1] + dx, c[2] + dy>> : dx \in {-1, 0, 1}, dy \in {-1, 0, 1} } :
      n # c /\ InBounds(n) }

Neighbours(c) ==
  { n \in { <<c[1] - 1, c[2]>>, <<c[1] + 1, c[2]>>,
            <<c[1], c[2] - 1>>, <<c[1], c[2] + 1>> } : InBounds(n) }

buildMainWord(b, pls, info, dir) ==
  LET line == IF dir = "row" THEN pls[1].y ELSE pls[1].x
      at == { IF dir = "row" THEN pls[i].x ELSE pls[i].y : i \in DOMAIN pls }
      lo == ExpandDown(b, dir, line, Min(at))
      hi == ExpandUp(b, dir, line, Max(at))
      span == { LineCell(dir, line, i) : i \in lo..hi }
      inSpan == \E c \in span : HasTile(b, c)
      adjacent == \E i \in DOMAIN pls :
                    \E n \in Neighbours(LineCell(dir, line,
                               IF dir = "row" THEN pls[i].x ELSE pls[i].y)) :
                      HasTile(b, n)
  IN [dir |-> dir, line |-> line, lo |-> lo, hi |-> hi,
      word |-> Letters(b, pls, info, dir, line, lo, hi),
      connected |-> inSpan \/ adjacent,
      contiguous |-> \A c \in span : HasTile(b, c) \/ PlacedAt(pls, c)]

\* the word across the line through one placement: the orthogonal span
\* through the tiles on the board, kept when it has two cells or more
CrossWordAt(b, info, dir, pl) ==
  LET cdir == IF dir = "row" THEN "col" ELSE "row"
      line == IF dir = "row" THEN pl.x ELSE pl.y
      at == IF dir = "row" THEN pl.y ELSE pl.x
      lo == ExpandDown(b, cdir, line, at)
      hi == ExpandUp(b, cdir, line, at)
  IN [dir |-> cdir, line |-> line, lo |-> lo, hi |-> hi,
      word |-> Letters(b, <<pl>>, info, cdir, line, lo, hi),
      anchor |-> PCell(pl)]

RECURSIVE buildCrossWords(_, _, _, _)
buildCrossWords(b, pls, info, dir) ==
  IF pls = <<>> THEN <<>>
  ELSE LET cw == CrossWordAt(b, info, dir, Head(pls))
       IN (IF cw.hi - cw.lo >= 1 THEN <<cw>> ELSE <<>>)
          \o buildCrossWords(b, Tail(pls), info, dir)

\* [main.word, ...cross.map(c => c.word)].filter(w => w.length > 1)
AllWords(main, cross) ==
  LET ws == <<main.word>> \o [i \in DOMAIN cross |-> cross[i].word]
      RECURSIVE Long(_)
      Long(s) == IF s = <<>> THEN <<>>
                 ELSE (IF Len(Head(s)) > 1 THEN <<Head(s)>> ELSE <<>>) \o Long(Tail(s))
  IN Long(ws)

letterAndWordMultipliers(bonusUsed, c) ==
  IF Bonus(c) = "none" \/ c \in bonusUsed THEN [letterMul |-> 1, wordMul |-> 1]
  ELSE IF Bonus(c) = "DL" THEN [letterMul |-> 2, wordMul |-> 1]
  ELSE IF Bonus(c) = "TL" THEN [letterMul |-> 3, wordMul |-> 1]
  ELSE IF Bonus(c) = "DW" THEN [letterMul |-> 1, wordMul |-> 2]
  ELSE [letterMul |-> 1, wordMul |-> 3]

getPlacementLetterValue(info, c) == IF c \in DOMAIN info THEN info[c].value ELSE 0

\* the loop applying the premium of a cell whenever it is not marked as used,
\* to the tiles already on the board too: BonusSingleUse does not hold of it
RECURSIVE SpanScoreReused(_, _, _, _, _, _, _, _)
SpanScoreReused(b, bonusUsed, pls, info, dir, line, i, hi) ==
  IF i > hi THEN [score |-> 0, wordMul |-> 1]
  ELSE LET c == LineCell(dir, line, i)
           rest == SpanScoreReused(b, bonusUsed, pls, info, dir, line, i + 1, hi)
           m == letterAndWordMultipliers({}, c)
       IN IF PlacedAt(pls, c)
          THEN [score |-> getPlacementLetterValue(info, c) * m.letterMul + rest.score,
                wordMul |-> m.wordMul * rest.wordMul]
          ELSE [score |-> (IF HasTile(b, c) THEN TileValue(b[c].id) ELSE 0) * m.letterMul
                          + rest.score,
                wordMul |-> m.wordMul * rest.wordMul]

\* the loop of scoreWord and scoreCrossWord over the cells lo..hi of a line:
\* [sum of letter values with letter multipliers, product of word multipliers]
RECURSIVE SpanScore(_, _, _, _, _, _, _, _)
SpanScore(b, bonusUsed, pls, info, dir, line, i, hi) ==
  IF i > hi THEN [score |-> 0, wordMul |-> 1]
  ELSE LET c == LineCell(dir, line, i)
           rest == SpanScore(b, bonusUsed, pls, info, dir, line, i + 1, hi)
           m == letterAndWordMultipliers(bonusUsed, c)
       IN IF PlacedAt(pls, c)
          THEN [score |-> getPlacementLetterValue(info, c) * m.letterMul + rest.score,
                wordMul |-> m.wordMul * rest.wordMul]
          ELSE [score |-> (IF HasTile(b, c) THEN TileValue(b[c].id) ELSE 0) + rest.score,
                wordMul |-> rest.wordMul]

\* scoreWord and scoreCrossWord: score * wordMultiplier over the span
scoreWord(b, bonusUsed, pls, info, span) ==
  LET r == SpanScore(b, bonusUsed, pls, info, span.dir, span.line, span.lo, span.hi)
  IN r.score * r.wordMul

RECURSIVE SumCross(_, _, _, _, _)
SumCross(b, bonusUsed, pls, info, cross) ==
  IF cross = <<>> THEN 0
  ELSE scoreWord(b, bonusUsed, pls, info, Head(cross))
       + SumCross(b, bonusUsed, pls, info, Tail(cross))

\* total of a play: main word, cross words, 50 for seven placements
PlayScore(b, bonusUsed, pls, info, main, cross) ==
  scoreWord(b, bonusUsed, pls, info, main)
  + SumCross(b, bonusUsed, pls, info, cross)
  + (IF Len(pls) = RACK_SIZE THEN BINGO_BONUS ELSE 0)

(***************************************************************************)
(* GameService: the state of a game and the moves                          *)
(***************************************************************************)
NewStats == [wordsPlayed |-> 0, bestWordScore |-> 0, bestWord |-> <<>>,
             totalTurns |-> 0, passes |-> 0]

\* floor(Math.random() * (i + 1)) at index i of a shuffle, under a seed: seed 0
\* draws 0 (every swap is with the first tile), seed 1 draws i (every swap is
\* with itself), seed 2 draws i - 1, ...
RandomIndex(seed, i) == (i * seed) % (i + 1)

Swap(arr, i, j) == [arr EXCEPT ![i] = arr[j], ![j] = arr[i]]

\* shuffle(arr), Fisher-Yates from the last index down; indices are 0-based in
\* the code and 1-based here
RECURSIVE ShuffleFrom(_, _, _)
ShuffleFrom(arr, seed, i) ==
  IF i < 1 THEN arr
  ELSE ShuffleFrom(Swap(arr, i + 1, RandomIndex(seed, i) + 1), seed, i - 1)

shuffle(arr, seed) == ShuffleFrom(arr, seed, Len(arr) - 1)

\* drawTiles(bag, n): pops n tiles, or as many as there are, from the tail
drawTiles(bag, n) ==
  LET k == IF n < 0 THEN 0 ELSE IF n < Len(bag) THEN n ELSE Len(bag)
  IN [out |-> [i \in 1..k |-> bag[Len(bag) - i + 1]],
      bag |-> SubSeq(bag, 1, Len(bag) - k)]

\* the loop of startNewGame that deals a rack to every player in turn
RECURSIVE Deal(_, _, _)
Deal(order, ps, bag) ==
  IF order = <<>> THEN [ps |-> ps, bag |-> bag]
  ELSE LET d == drawTiles(bag, RACK_SIZE)
       IN Deal(Tail(order), [ps EXCEPT ![Head(order)].rack = d.out], d.bag)

\* startNewGame(room) at time t; the caller has checked that there are players
startNewGame(rm, ps, seed, t) ==
  LET reset == [p \in DOMAIN ps |->
                  IF p \in Range(rm.players)
                  THEN [ps[p] EXCEPT !.score = 0, !.rack = <<>>, !.ready = FALSE,
                                     !.stats = NewStats]
                  ELSE ps[p]]
      bag == shuffle([i \in 1..NumTiles(Len(rm.players)) |-> i], seed)
      dealt == Deal(rm.players, reset, bag)
  IN [ps |-> dealt.ps,
      g |-> [board |-> EmptyMap, bonusUsed |-> {}, bag |-> dealt.bag,
             turnIndex |-> 0, activePlayerId |-> rm.players[1],
             turnEndsAt |-> t + TURN_DURATION, log |-> <<>>,
             consecutivePasses |-> 0, version |-> 1]]

buildMoveSummary(action, pid, pls, score, g, words) ==
  [playerId |-> pid, action |-> action, words |-> words, score |-> score,
   placements |-> pls, turnNumber |-> g.version + 1]

\* advanceTurn raising the version by two: VersionCounts does not hold of it
advanceTurnTwice(rm, g, t) ==
  IF Len(rm.players) = 0
  THEN [err |-> "TypeError", g |-> [g EXCEPT !.turnIndex = -1]]
  ELSE LET ti == (g.turnIndex + 1) % Len(rm.players)
       IN [err |-> "OK",
           g |-> [g EXCEPT !.turnIndex = ti,
                           !.activePlayerId = rm.players[ti + 1],
                           !.turnEndsAt = t + TURN_DURATION,
                           !.version = g.version + 2]]

\* advanceTurn leaving the turn where it is: TurnAdvances does not hold of it
advanceTurnStay(rm, g, t) ==
  IF Len(rm.players) = 0
  THEN [err |-> "TypeError", g |-> [g EXCEPT !.turnIndex = -1]]
  ELSE LET ti == g.turnIndex % Len(rm.players)
       IN [err |-> "OK",
           g |-> [g EXCEPT !.turnIndex = ti,
                           !.activePlayerId = rm.players[ti + 1],
                           !.turnEndsAt = t + TURN_DURATION,
                           !.version = g.version + 1]]

\* advanceTurn(room) at time t.  With no player left (x % 0 is NaN, and
\* room.players[NaN] is undefined) reading .id throws after turnIndex is set.
advanceTurn(rm, g, t) ==
  IF Len(rm.players) = 0
  THEN [err |-> "TypeError", g |-> [g EXCEPT !.turnIndex = -1]]
  ELSE LET ti == (g.turnIndex + 1) % Len(rm.players)
       IN [err |-> "OK",
           g |-> [g EXCEPT !.turnIndex = ti,
                           !.activePlayerId = rm.players[ti + 1],
                           !.turnEndsAt = t + TURN_DURATION,
                           !.version = g.version + 1]]

RackValue(rack) == SumSeq([i \in DOMAIN rack |-> TileValue(rack[i])])

\* the end condition with one pass more: FinishedExactlyAtEnd does not hold
\* of it
EndConditionLate(rm, ps, g) ==
  \/ Len(g.bag) = 0 /\ \E p \in Range(rm.players) : Len(ps[p].rack) = 0
  \/ g.consecutivePasses > MAX_CONSECUTIVE_PASSES

EndCondition(rm, ps, g) ==
  \/ Len(g.bag) = 0 /\ \E p \in Range(rm.players) : Len(ps[p].rack) = 0
  \/ g.consecutivePasses >= MAX_CONSECUTIVE_PASSES

\* checkAndFinalizeIfEnded without the gain of the finisher: EndScoring does
\* not hold of it
checkAndFinalizeNoGain(rm, ps, g) ==
  IF EndCondition(rm, ps, g)
  THEN [ended |-> TRUE,
        rm |-> [rm EXCEPT !.status = "finished"],
        ps |-> [p \in DOMAIN ps |->
                  IF p \notin Range(rm.players) THEN ps[p]
                  ELSE [ps[p] EXCEPT !.score = ps[p].score - RackValue(ps[p].rack)]]]
  ELSE [ended |-> FALSE, rm |-> rm, ps |-> ps]

\* checkAndFinalizeIfEnded(room)
checkAndFinalizeIfEnded(rm, ps, g) ==
  IF EndCondition(rm, ps, g)
  THEN LET empties == { i \in DOMAIN rm.players : Len(ps[rm.players[i]].rack) = 0 }
           finisher == IF empties = {} THEN NoPlayer ELSE rm.players[Min(empties)]
           sumOthers == SumSeq([i \in DOMAIN rm.players |->
                                  IF rm.players[i] = finisher THEN 0
                                  ELSE RackValue(ps[rm.players[i]].rack)])
       IN [ended |-> TRUE,
           rm |-> [rm EXCEPT !.status = "finished"],
           ps |-> [p \in DOMAIN ps |->
                     IF p \notin Range(rm.players) THEN ps[p]
                     ELSE [ps[p] EXCEPT !.score =
                             ps[p].score - RackValue(ps[p].rack)
                             + (IF p = finisher THEN sumOthers ELSE 0)]]]
  ELSE [ended |-> FALSE, rm |-> rm, ps |-> ps]

\* A string sent as a reason is the sequence of its units: an error code is
\* one unit, a word has one unit per letter.
Text(code) == <<code>>

\* what playMove leaves behind: the error thrown ("OK" when it returns), the
\* objects as they are at that point, the move and the ended flag
Thrown(code, rm, ps, g) ==
  [err |-> code, reason |-> Text(code), rm |-> rm, ps |-> ps, g |-> g,
   move |-> <<>>, ended |-> FALSE]

\* the common tail of the three branches: log the move, advance the turn,
\* check the end of the game
LogAndAdvance(rm, ps, g, move, t) ==
  LET adv == advanceTurn(rm, [g EXCEPT !.log = Append(g.log, move)], t)
      fin == checkAndFinalizeIfEnded(rm, ps, adv.g)
  IN IF adv.err # "OK" THEN Thrown(adv.err, rm, ps, adv.g)
     ELSE [err |-> "OK", reason |-> Text("OK"), rm |-> fin.rm, ps |-> fin.ps, g |-> adv.g,
           move |-> <<move>>, ended |-> fin.ended]

\* the checks at the head of playMove
PlayMoveGuard(rm, g, pid) ==
  IF g = NoGame THEN "NO_GAME"
  ELSE IF FindIndex(rm.players, pid) = 0 THEN "PLAYER_NOT_IN_ROOM"
  ELSE IF g.activePlayerId # pid THEN "NOT_YOUR_TURN"
  ELSE "OK"

\* playMove 'pass' counting the pass before its guards: RejectedMutatesNothing
\* does not hold of it
PlayMovePassEager(rm, ps, g, pid, t) ==
  LET ps1 == [ps EXCEPT ![pid].stats.passes = @ + 1]
  IN IF PlayMoveGuard(rm, g, pid) # "OK" THEN Thrown(PlayMoveGuard(rm, g, pid), rm, ps1, g)
     ELSE LET g1 == [g EXCEPT !.consecutivePasses = @ + 1]
          IN LogAndAdvance(rm, ps1, g1, buildMoveSummary("pass", pid, <<>>, 0, g1, <<>>), t)

\* playMove 'pass' leaving consecutivePasses as it is: PassLaw does not hold
\* of it
PlayMovePassUncounted(rm, ps, g, pid, t) ==
  IF PlayMoveGuard(rm, g, pid) # "OK" THEN Thrown(PlayMoveGuard(rm, g, pid), rm, ps, g)
  ELSE LET ps1 == [ps EXCEPT ![pid].stats.passes = @ + 1]
       IN LogAndAdvance(rm, ps1, g, buildMoveSummary("pass", pid, <<>>, 0, g, <<>>), t)

\* playMove(room, playerId, 'pass')
PlayMovePass(rm, ps, g, pid, t) ==
  IF PlayMoveGuard(rm, g, pid) # "OK" THEN Thrown(PlayMoveGuard(rm, g, pid), rm, ps, g)
  ELSE LET ps1 == [ps EXCEPT ![pid].stats.passes = @ + 1]
           g1 == [g EXCEPT !.consecutivePasses = @ + 1]
       IN LogAndAdvance(rm, ps1, g1, buildMoveSummary("pass", pid, <<>>, 0, g1, <<>>), t)

\* the checks of the exchange branch
CheckExchange(g, rack, ids) ==
  IF Len(ids) = 0 THEN "NO_TILES_TO_EXCHANGE"
  ELSE IF Len(g.bag) < Len(ids) THEN "BAG_TOO_SMALL"
  ELSE IF \E i \in DOMAIN ids : ids[i] \notin Range(rack) THEN "TILE_NOT_IN_RACK"
  ELSE "OK"

\* playMove(room, playerId, 'exchange', undefined, ids)
PlayMoveExchange(rm, ps, g, pid, ids, seed, t) ==
  IF PlayMoveGuard(rm, g, pid) # "OK" THEN Thrown(PlayMoveGuard(rm, g, pid), rm, ps, g)
  ELSE IF CheckExchange(g, ps[pid].rack, ids) # "OK"
  THEN Thrown(CheckExchange(g, ps[pid].rack, ids), rm, ps, g)
  ELSE LET rack == ps[pid].rack
           toReturn == Filter(rack, Range(ids))
           kept == Filter(rack, Range(rack) \ Range(ids))
           d == drawTiles(shuffle(g.bag \o toReturn, seed), Len(ids))
           ps1 == [ps EXCEPT ![pid].rack = kept \o d.out,
                             ![pid].stats.passes = @ + 1]
           g1 == [g EXCEPT !.bag = d.bag, !.consecutivePasses = @ + 1]
       IN LogAndAdvance(rm, ps1, g1,
                        buildMoveSummary("exchange", pid, <<>>, 0, g1, <<>>), t)

\* the checks of a play with the centre rule ahead of the cells: PlayCheckOrder
\* does not hold of it
PlayCheckCentreFirst(rm, ps, g, pid, pls) ==
  IF PlayMoveGuard(rm, g, pid) # "OK" THEN [err |-> PlayMoveGuard(rm, g, pid)]
  ELSE IF Len(pls) = 0 THEN [err |-> "NO_PLACEMENTS"]
  ELSE IF boardIsEmpty(g.board) /\ ~PlacedAt(pls, <<CENTER, CENTER>>)
  THEN [err |-> "MUST_COVER_CENTER"]
  ELSE IF CheckCells(g.board, pls) # "OK" THEN [err |-> CheckCells(g.board, pls)]
  ELSE IF CheckTiles(Range(ps[pid].rack), pls, {}) # "OK"
  THEN [err |-> CheckTiles(Range(ps[pid].rack), pls, {})]
  ELSE IF ~SameRow(pls) /\ ~SameCol(pls) THEN [err |-> "NOT_ALIGNED"]
  ELSE LET info == PlacementInfo(pls, EmptyMap)
           dir == Direction(pls)
           main == buildMainWord(g.board, pls, info, dir)
           cross == buildCrossWords(g.board, pls, info, dir)
       IN IF ~main.contiguous THEN [err |-> "NOT_CONTIGUOUS"]
          ELSE IF ~boardIsEmpty(g.board) /\ ~main.connected THEN [err |-> "NOT_CONNECTED"]
          ELSE IF AllWords(main, cross) = <<>> THEN [err |-> "NO_WORD_FORMED"]
          ELSE [err |-> "OK", pid |-> pid, placements |-> pls, info |-> info,
                main |-> main, cross |-> cross, allWords |-> AllWords(main, cross)]

\* playMove(room, playerId, 'play', placements) up to the first
\* await isWordValid: the error thrown, or "OK" with the locals the rest of
\* the function keeps (player, placementsList, used, placementInfo, direction,
\* main, cross, allWords)
PlayCheck(rm, ps, g, pid, pls) ==
  IF PlayMoveGuard(rm, g, pid) # "OK" THEN [err |-> PlayMoveGuard(rm, g, pid)]
  ELSE IF Len(pls) = 0 THEN [err |-> "NO_PLACEMENTS"]
  ELSE IF CheckCells(g.board, pls) # "OK" THEN [err |-> CheckCells(g.board, pls)]
  ELSE IF CheckTiles(Range(ps[pid].rack), pls, {}) # "OK"
  THEN [err |-> CheckTiles(Range(ps[pid].rack), pls, {})]
  ELSE IF ~SameRow(pls) /\ ~SameCol(pls) THEN [err |-> "NOT_ALIGNED"]
  ELSE IF boardIsEmpty(g.board) /\ ~PlacedAt(pls, <<CENTER, CENTER>>)
  THEN [err |-> "MUST_COVER_CENTER"]
  ELSE LET info == PlacementInfo(pls, EmptyMap)
           dir == Direction(pls)
           main == buildMainWord(g.board, pls, info, dir)
           cross == buildCrossWords(g.board, pls, info, dir)
       IN IF ~main.contiguous THEN [err |-> "NOT_CONTIGUOUS"]
          ELSE IF ~boardIsEmpty(g.board) /\ ~main.connected THEN [err |-> "NOT_CONNECTED"]
          ELSE IF AllWords(main, cross) = <<>> THEN [err |-> "NO_WORD_FORMED"]
          ELSE [err |-> "OK", pid |-> pid, placements |-> pls, info |-> info,
                main |-> main, cross |-> cross, allWords |-> AllWords(main, cross)]

\* the loop that applies the placements: the tile is looked up in the rack as
\* it is now (undefined when it is no longer there), the cell is overwritten
RECURSIVE ApplyPlacements(_, _, _, _, _)
ApplyPlacements(b, rackIds, pls, pid, turnNumber) ==
  IF pls = <<>> THEN b
  ELSE LET pl == Head(pls)
           tile == [id |-> IF pl.tileId \in rackIds THEN pl.tileId ELSE NoId,
                    fromPlayerId |-> pid, turnPlayed |-> turnNumber]
       IN ApplyPlacements([c \in DOMAIN b \cup {PCell(pl)} |->
                             IF c = PCell(pl) THEN tile ELSE b[c]],
                          rackIds, Tail(pls), pid, turnNumber)

\* playMove from the verdicts of the dictionary on: k.allWords[refused] is the
\* first word refused (0 when all are accepted); k holds the kept locals
PlayCommit(rm, ps, g, k, refused, t) ==
  IF refused # 0
  THEN [err |-> "INVALID_WORD", reason |-> k.allWords[refused], rm |-> rm, ps |-> ps,
        g |-> g, move |-> <<>>, ended |-> FALSE]
  ELSE LET pid == k.pid
           pls == k.placements
           total == PlayScore(g.board, g.bonusUsed, pls, k.info, k.main, k.cross)
           rack == ps[pid].rack
           used == { pls[i].tileId : i \in DOMAIN pls }
           board1 == ApplyPlacements(g.board, Range(rack), pls, pid, g.version + 1)
           bonus1 == g.bonusUsed \cup
                       { PCell(pls[i]) : i \in { j \in DOMAIN pls : Bonus(PCell(pls[j])) # "none" } }
           kept == Filter(rack, Range(rack) \ used)
           d == drawTiles(g.bag, IF RACK_SIZE - Len(kept) < Len(g.bag)
                                 THEN RACK_SIZE - Len(kept) ELSE Len(g.bag))
           st == ps[pid].stats
           ps1 == [ps EXCEPT ![pid].rack = kept \o d.out,
                             ![pid].score = @ + total,
                             ![pid].stats =
                               [st EXCEPT !.wordsPlayed = @ + 1, !.totalTurns = @ + 1,
                                  !.bestWordScore = IF total > @ THEN total ELSE @,
                                  !.bestWord = IF total > st.bestWordScore
                                               THEN k.main.word ELSE @]]
           g1 == [g EXCEPT !.board = board1, !.bonusUsed = bonus1, !.bag = d.bag,
                           !.consecutivePasses = 0]
       IN LogAndAdvance(rm, ps1, g1,
                        buildMoveSummary("play", pid, pls, total, g1, k.allWords), t)

(***************************************************************************)
(* State                                                                   *)
(***************************************************************************)
VARIABLES
  reg,       \* RoomStore.rooms: the ids that map to a room
  room,      \* room objects: hostId, status, maxPlayers, players, lastActivityAt
  pobj,      \* player objects of a room, by player id (kept once removed: a
             \* suspended play still holds its player)
  game,      \* room.game, or NoGame
  sock,      \* sockets: "open" or "closed"
  inflight,  \* plays suspended at await isWordValid
  cont,      \* the rest of the running task (handleLeaveRoom after its await)
  now,       \* Date.now()
  out        \* the messages emitted by the latest step

vars == <<reg, room, pobj, game, sock, inflight, cont, now, out>>

NoTask == [none |-> TRUE]
NoCont == [none |-> TRUE]
Slots == 1..MaxInFlight

\* playerBySocket(room, socketId): the first player bound to the socket
playerBySocket(rm, ps, c) ==
  LET idx == { i \in DOMAIN rm.players : ps[rm.players[i]].connectionId = c }
  IN IF idx = {} THEN NoPlayer ELSE rm.players[Min(idx)]

(***************************************************************************)
(* Messages.  to is a socket id, or a room id for io.to(roomId).           *)
(***************************************************************************)
ErrorMsg(c, code) == [type |-> "error", to |-> c, code |-> code]

InvalidMove(c, r, reason) == [type |-> "invalidMove", to |-> c, roomId |-> r, reason |-> reason]

\* toRoomSummary(room)
RoomUpdate(r, rm, ps) ==
  [type |-> "roomUpdate", to |-> r, hostId |-> rm.hostId, status |-> rm.status,
   players |-> [i \in DOMAIN rm.players |->
                  [id |-> rm.players[i], connected |-> ps[rm.players[i]].connected,
                   ready |-> ps[rm.players[i]].ready, score |-> ps[rm.players[i]].score]]]

\* the summary showing the rack of the active player to everybody: RackPrivacy
\* does not hold of it
SummaryOfActive(rm, ps, g, pid) ==
  [myRack |-> IF g.activePlayerId \in Range(rm.players)
              THEN ps[g.activePlayerId].rack ELSE <<>>,
   activePlayerId |-> g.activePlayerId, turnEndsAt |-> g.turnEndsAt,
   bagCount |-> Len(g.bag), version |-> g.version]

\* toGameStateSummaryForPlayer(game, players, playerId): the parts that vary
Summary(rm, ps, g, pid) ==
  [myRack |-> IF pid \in Range(rm.players) THEN ps[pid].rack ELSE <<>>,
   activePlayerId |-> g.activePlayerId, turnEndsAt |-> g.turnEndsAt,
   bagCount |-> Len(g.bag), version |-> g.version]

\* broadcastGameState(room): one gameState per player that has a connectionId
RECURSIVE GameStatesFrom(_, _, _, _, _)
GameStatesFrom(r, rm, ps, g, i) ==
  IF i > Len(rm.players) THEN <<>>
  ELSE (IF ps[rm.players[i]].connectionId = NoConn THEN <<>>
        ELSE << [type |-> "gameState", to |-> ps[rm.players[i]].connectionId,
                 roomId |-> r, gameState |-> Summary(rm, ps, g, rm.players[i])] >>)
       \o GameStatesFrom(r, rm, ps, g, i + 1)

broadcastGameState(r, rm, ps, g) ==
  IF g = NoGame THEN <<>> ELSE GameStatesFrom(r, rm, ps, g, 1)

\* sendFullStateToSocket(socket, roomId, playerId)
FullState(c, r, rm, ps, g, pid) ==
  [type |-> "fullState", to |-> c, roomId |-> r, status |-> rm.status,
   gameState |-> IF g = NoGame THEN <<>> ELSE <<Summary(rm, ps, g, pid)>>]

TurnUpdate(r, g) ==
  [type |-> "turnUpdate", to |-> r, activePlayerId |-> g.activePlayerId,
   turnEndsAt |-> g.turnEndsAt, version |-> g.version]

GameEnded(r, rm, ps) ==
  LET scores == [p \in Range(rm.players) |-> ps[p].score]
  IN [type |-> "gameEnded", to |-> r, scores |-> scores,
      winnerIds |-> { p \in Range(rm.players) :
                        \A q \in Range(rm.players) : scores[q] <= scores[p] }]

\* what handlePlayMove emits once playMove has returned or thrown
PlayMoveOut(c, r, res) ==
  IF res.err # "OK" THEN << InvalidMove(c, r, res.reason) >>
  ELSE << [type |-> "moveAccepted", to |-> r, move |-> res.move[1]] >>
       \o broadcastGameState(r, res.rm, res.ps, res.g)
       \o << TurnUpdate(r, res.g) >>
       \o (IF res.ended THEN << GameEnded(r, res.rm, res.ps) >> ELSE <<>>)

(***************************************************************************)
(* Inputs of the clients                                                   *)
(***************************************************************************)
\* A shape is a sequence of <<x, y, i>>: the i-th tile of the sender's rack on
\* cell (x, y); an i beyond the rack stands for a tile the sender does not hold.
Lay(rack, sh) ==
  [k \in 1..Len(sh) |-> [x |-> sh[k][1], y |-> sh[k][2],
                         tileId |-> IF sh[k][3] \in DOMAIN rack THEN rack[sh[k][3]]
                                    ELSE NoId]]

\* n tiles along a row or down a column from cell (x, y), taken from the
\* front of the rack
Line(x, y, dir, n) ==
  [k \in 1..n |-> IF dir = "row" THEN <<x + k - 1, y, k>> ELSE <<x, y + k - 1, k>>]

\* the shapes of a long game: two tiles on the centre, one tile or the whole
\* rack below the centre, one tile away from everything
Shapes ==
  { Line(7, 7, "row", 2), Line(7, 8, "col", 1), Line(7, 8, "col", RACK_SIZE),
    Line(9, 9, "row", 1) }

\* the shapes that reach every check of a play
WideShapes ==
  Shapes \cup
  { <<>>, Line(14, 7, "row", 2), Line(7, 7, "row", 1), Line(6, 7, "row", 2),
    Line(7, 7, "col", RACK_SIZE), Line(8, 8, "row", 2),
    << <<7, 7, 1>>, <<8, 7, 1>> >>, << <<7, 7, 1>>, <<8, 8, 2>> >>,
    << <<7, 7, 1>>, <<9, 7, 2>> >>, << <<7, 7, 1>>, <<8, 7, RACK_SIZE + 2>> >>,
    << <<7, 8, 1>>, <<7, 8, 2>> >>, << <<7, 7, 1>>, <<7, 7, 2>>, <<8, 7, 3>> >> }

\* the placements a player with this rack may send, by shape
PlayInputs(rack, shapes) == { Lay(rack, sh) : sh \in shapes }

\* the tileIdsToExchange a player with this rack may send in a long game
ExchangeInputs(rack) ==
  IF Len(rack) = 0 THEN { <<>> } ELSE { <<rack[1]>> }

\* and those that reach every check of an exchange
WideExchangeInputs(rack) ==
  ExchangeInputs(rack) \cup { <<>>, <<NoId>> }
  \cup (IF Len(rack) = 0 THEN {} ELSE { <<rack[1], rack[1]>>, rack })

Seeds == 0..(NumSeeds - 1)

(***************************************************************************)
(* Initial state: room R1 has been created by p1 on socket c1 (maxPlayers  *)
(* defaults to 4), p2 has joined on socket c2, both have toggled ready.    *)
(***************************************************************************)
NewPlayer(nick, c) ==
  [nickname |-> nick, connected |-> TRUE, connectionId |-> c, ready |-> TRUE,
   score |-> 0, rack |-> <<>>, stats |-> NewStats]

Init ==
  /\ reg = {"R1"}
  /\ room = [r \in RoomIds |->
               [hostId |-> "p1", status |-> "waiting", maxPlayers |-> 4,
                players |-> <<"p1", "p2">>, lastActivityAt |-> 0]]
  /\ pobj = [r \in RoomIds |->
               [p \in PlayerIds |-> IF p = "p1" THEN NewPlayer(Ann, "c1")
                                    ELSE NewPlayer(Bob, "c2")]]
  /\ game = [r \in RoomIds |-> NoGame]
  /\ sock = [c \in Conns |-> "open"]
  /\ inflight = [i \in Slots |-> NoTask]
  /\ cont = NoCont
  /\ now = 0
  /\ out = <<>>

\* RoomStore.updateActivity(room)
updateActivity(rm, t) == [rm EXCEPT !.lastActivityAt = t]

(***************************************************************************)
(* WebSocketServer.handleStartGame                                         *)
(***************************************************************************)
\* a handleStartGame that starts a game whatever the status of the room:
\* StatusForward does not hold of it
HandleStartGameAgain(c, r, pidArg, seed) ==
  LET rm == room[r]
      bound == playerBySocket(rm, pobj[r], c)
      attach == bound = NoPlayer /\ pidArg # NoPlayer /\ pidArg \in Range(rm.players)
      player == IF attach THEN pidArg ELSE bound
      ps == IF attach THEN [pobj[r] EXCEPT ![pidArg].connectionId = c] ELSE pobj[r]
      fail(code) == [rm |-> rm, ps |-> ps, g |-> game[r], out |-> << ErrorMsg(c, code) >>]
  IN IF r \notin reg
     THEN [rm |-> rm, ps |-> pobj[r], g |-> game[r],
           out |-> << ErrorMsg(c, "ROOM_NOT_FOUND") >>]
     ELSE IF player = NoPlayer \/ rm.hostId # player THEN fail("NOT_HOST")
     ELSE IF Len(rm.players) < 2 THEN fail("MIN_PLAYERS")
     ELSE IF Greater(Len(rm.players), rm.maxPlayers) THEN fail("ROOM_FULL")
     ELSE IF \E p \in Range(rm.players) : ~ps[p].ready THEN fail("NOT_ALL_READY")
     ELSE LET st == startNewGame([rm EXCEPT !.status = "playing"], ps, seed, now)
              rm1 == updateActivity([rm EXCEPT !.status = "playing"], now)
          IN [rm |-> rm1, ps |-> st.ps, g |-> st.g,
              out |-> << RoomUpdate(r, rm1, st.ps) >>
                      \o broadcastGameState(r, rm1, st.ps, st.g)]

\* the outcome of handleStartGame on socket c for payload {roomId, playerId}
HandleStartGame(c, r, pidArg, seed) ==
  LET rm == room[r]
      bound == playerBySocket(rm, pobj[r], c)
      attach == bound = NoPlayer /\ pidArg # NoPlayer /\ pidArg \in Range(rm.players)
      player == IF attach THEN pidArg ELSE bound
      ps == IF attach THEN [pobj[r] EXCEPT ![pidArg].connectionId = c] ELSE pobj[r]
      fail(code) == [rm |-> rm, ps |-> ps, g |-> game[r], out |-> << ErrorMsg(c, code) >>]
  IN IF r \notin reg
     THEN [rm |-> rm, ps |-> pobj[r], g |-> game[r],
           out |-> << ErrorMsg(c, "ROOM_NOT_FOUND") >>]
     ELSE IF player = NoPlayer \/ rm.hostId # player THEN fail("NOT_HOST")
     ELSE IF Len(rm.players) < 2 THEN fail("MIN_PLAYERS")
     ELSE IF Greater(Len(rm.players), rm.maxPlayers) THEN fail("ROOM_FULL")
     ELSE IF \E p \in Range(rm.players) : ~ps[p].ready THEN fail("NOT_ALL_READY")
     ELSE IF rm.status # "waiting" THEN fail("INVALID_STATE")
     ELSE LET st == startNewGame([rm EXCEPT !.status = "playing"], ps, seed, now)
              rm1 == updateActivity([rm EXCEPT !.status = "playing"], now)
          IN [rm |-> rm1, ps |-> st.ps, g |-> st.g,
              out |-> << RoomUpdate(r, rm1, st.ps) >>
                      \o broadcastGameState(r, rm1, st.ps, st.g)]

StartGame(c, r, pidArg, seed) ==
  /\ cont = NoCont
  /\ sock[c] = "open"
  /\ LET h == HandleStartGame(c, r, pidArg, seed)
     IN /\ room' = [room EXCEPT ![r] = h.rm]
        /\ pobj' = [pobj EXCEPT ![r] = h.ps]
        /\ game' = [game EXCEPT ![r] = h.g]
        /\ out' = h.out
  /\ UNCHANGED <<reg, sock, inflight, cont, now>>

(***************************************************************************)
(* WebSocketServer.handlePlayMove                                          *)
(***************************************************************************)
\* the submitter of a playMove on socket c: an error code, or the player
Submitter(c, r) ==
  IF r \notin reg THEN [err |-> "ROOM_NOT_FOUND"]
  ELSE IF playerBySocket(room[r], pobj[r], c) = NoPlayer THEN [err |-> "NOT_IN_ROOM"]
  ELSE [err |-> "OK", pid |-> playerBySocket(room[r], pobj[r], c)]

\* applies what playMove left behind and emits what handlePlayMove emits
Settle(c, r, res) ==
  /\ room' = [room EXCEPT ![r] = res.rm]
  /\ pobj' = [pobj EXCEPT ![r] = res.ps]
  /\ game' = [game EXCEPT ![r] = res.g]
  /\ out' = PlayMoveOut(c, r, res)

Refuse(c, code) ==
  /\ out' = << ErrorMsg(c, code) >>
  /\ UNCHANGED <<room, pobj, game>>

\* the rack of the player bound to socket c, empty if there is none
RackOf(c, r) ==
  IF Submitter(c, r).err = "OK" THEN pobj[r][Submitter(c, r).pid].rack ELSE <<>>

\* playMove {roomId, action: 'pass'}
Pass(c, r) ==
  /\ cont = NoCont
  /\ sock[c] = "open"
  /\ LET s == Submitter(c, r)
     IN IF s.err # "OK" THEN Refuse(c, s.err)
        ELSE Settle(c, r, PlayMovePass(room[r], pobj[r], game[r], s.pid, now))
  /\ UNCHANGED <<reg, sock, inflight, cont, now>>

\* playMove {roomId, action: 'exchange', tileIdsToExchange}
Exchange(c, r, ids, seed) ==
  /\ cont = NoCont
  /\ sock[c] = "open"
  /\ LET s == Submitter(c, r)
     IN IF s.err # "OK" THEN Refuse(c, s.err)
        ELSE Settle(c, r, PlayMoveExchange(room[r], pobj[r], game[r], s.pid, ids, seed, now))
  /\ UNCHANGED <<reg, sock, inflight, cont, now>>

FreeSlots == { i \in Slots : inflight[i] = NoTask }

\* playMove {roomId, action: 'play', placements}, up to await isWordValid:
\* rejected at once, or suspended with its locals
SubmitPlay(c, r, pls) ==
  /\ cont = NoCont
  /\ sock[c] = "open"
  /\ LET s == Submitter(c, r)
     IN IF s.err # "OK" THEN Refuse(c, s.err) /\ UNCHANGED inflight
        ELSE LET k == PlayCheck(room[r], pobj[r], game[r], s.pid, pls)
             IN IF k.err # "OK"
                THEN /\ out' = << InvalidMove(c, r, Text(k.err)) >>
                     /\ UNCHANGED <<room, pobj, game, inflight>>
                ELSE /\ FreeSlots # {}
                     /\ inflight' = [inflight EXCEPT ![Min(FreeSlots)] =
                                       [room |-> r, conn |-> c, k |-> k]]
                     /\ out' = <<>>
                     /\ UNCHANGED <<room, pobj, game>>
  /\ UNCHANGED <<reg, sock, cont, now>>

\* the dictionary answers: the play of slot i goes on from its await, with
\* the first refused word (0: none) and commits or fails
ResumePlay(i, refused) ==
  /\ cont = NoCont
  /\ inflight[i] # NoTask
  /\ refused \in 0..Len(inflight[i].k.allWords)
  /\ LET r == inflight[i].room
     IN Settle(inflight[i].conn, r,
               PlayCommit(room[r], pobj[r], game[r], inflight[i].k, refused, now))
  /\ inflight' = [inflight EXCEPT ![i] = NoTask]
  /\ UNCHANGED <<reg, sock, cont, now>>

(***************************************************************************)
(* index.ts: the turn timeout enforcement loop                             *)
(***************************************************************************)
Expired(r) ==
  /\ r \in reg
  /\ room[r].status = "playing"
  /\ game[r] # NoGame
  /\ now > game[r].turnEndsAt

\* the forced pass of one room; a throw is logged and nothing is emitted
ForcedPass(r) == PlayMovePass(room[r], pobj[r], game[r], game[r].activePlayerId, now)

RECURSIVE TickOut(_)
TickOut(rs) ==
  IF rs = {} THEN <<>>
  ELSE LET r == CHOOSE x \in rs : TRUE
           res == ForcedPass(r)
       IN (IF res.err # "OK" THEN <<>>
           ELSE << TurnUpdate(r, res.g) >> \o broadcastGameState(r, res.rm, res.ps, res.g))
          \o TickOut(rs \ {r})

TurnTick ==
  /\ cont = NoCont
  /\ room' = [r \in RoomIds |-> IF Expired(r) THEN ForcedPass(r).rm ELSE room[r]]
  /\ pobj' = [r \in RoomIds |-> IF Expired(r) THEN ForcedPass(r).ps ELSE pobj[r]]
  /\ game' = [r \in RoomIds |-> IF Expired(r) THEN ForcedPass(r).g ELSE game[r]]
  /\ out' = TickOut({ r \in RoomIds : Expired(r) })
  /\ UNCHANGED <<reg, sock, inflight, cont, now>>

(***************************************************************************)
(* WebSocketServer.handleLeaveRoom and RoomStore.removePlayerFromRoom      *)
(***************************************************************************)
\* removePlayerFromRoom leaving the host as it is: HostIsMember does not hold
\* of it
removePlayerKeepHost(r, pid, t) ==
  LET rm == room[r]
      idx == FindIndex(rm.players, pid)
      rest == SubSeq(rm.players, 1, idx - 1) \o SubSeq(rm.players, idx + 1, Len(rm.players))
  IN IF r \notin reg \/ idx = 0 THEN [reg |-> reg, rm |-> rm]
     ELSE IF rest = <<>>
     THEN [reg |-> reg \ {r}, rm |-> updateActivity([rm EXCEPT !.players = rest], t)]
     ELSE [reg |-> reg, rm |-> updateActivity([rm EXCEPT !.players = rest], t)]

\* removePlayerFromRoom(roomId, playerId) at time t: the registry and the room
removePlayerFromRoom(r, pid, t) ==
  LET rm == room[r]
      idx == FindIndex(rm.players, pid)
      rest == SubSeq(rm.players, 1, idx - 1) \o SubSeq(rm.players, idx + 1, Len(rm.players))
  IN IF r \notin reg \/ idx = 0 THEN [reg |-> reg, rm |-> rm]
     ELSE IF rest = <<>>
     THEN [reg |-> reg \ {r}, rm |-> updateActivity([rm EXCEPT !.players = rest], t)]
     ELSE [reg |-> reg,
           rm |-> updateActivity([rm EXCEPT !.players = rest,
                                            !.hostId = IF pid = rm.hostId THEN rest[1] ELSE @],
                                 t)]

\* the rest of handleLeaveRoom: remove the player, then broadcast to the room
\* if it is still there
Remove(r, pid) ==
  LET rem == removePlayerFromRoom(r, pid, now)
  IN /\ reg' = rem.reg
     /\ room' = [room EXCEPT ![r] = rem.rm]
     /\ out' = IF r \in rem.reg
               THEN << RoomUpdate(r, rem.rm, pobj'[r]) >>
                    \o broadcastGameState(r, rem.rm, pobj'[r], game'[r])
               ELSE <<>>

\* leaveRoom {roomId} on socket c.  The active player of a game is first
\* passed (a throw is ignored); the handler goes on after that await.
LeaveRoom(c, r) ==
  /\ cont = NoCont
  /\ sock[c] = "open"
  /\ r \in reg
  /\ playerBySocket(room[r], pobj[r], c) # NoPlayer
  /\ LET pid == playerBySocket(room[r], pobj[r], c)
     IN IF game[r] # NoGame /\ game[r].activePlayerId = pid
        THEN LET res == PlayMovePass(room[r], pobj[r], game[r], pid, now)
             IN /\ room' = [room EXCEPT ![r] = res.rm]
                /\ pobj' = [pobj EXCEPT ![r] = res.ps]
                /\ game' = [game EXCEPT ![r] = res.g]
                /\ cont' = [kind |-> "leaveRoom", room |-> r, pid |-> pid]
                /\ out' = <<>>
                /\ UNCHANGED reg
        ELSE /\ UNCHANGED <<pobj, game, cont>>
             /\ Remove(r, pid)
  /\ UNCHANGED <<sock, inflight, now>>

LeaveRoomRemove ==
  /\ cont # NoCont
  /\ cont.kind = "leaveRoom"
  /\ UNCHANGED <<pobj, game>>
  /\ Remove(cont.room, cont.pid)
  /\ cont' = NoCont
  /\ UNCHANGED <<sock, inflight, now>>

(***************************************************************************)
(* WebSocketServer: connection, disconnect, reconnect                      *)
(***************************************************************************)
\* a disconnect that takes every player of the room for bound to the socket:
\* DisconnectFrame does not hold of it
BoundToAny(r, c) == Range(room[r].players)

\* the players of room r whose connectionId is the socket id
BoundTo(r, c) == { p \in Range(room[r].players) : pobj[r][p].connectionId = c }

RECURSIVE DisconnectOut(_, _)
DisconnectOut(rs, ps) ==
  IF rs = {} THEN <<>>
  ELSE LET r == CHOOSE x \in rs : TRUE
       IN << RoomUpdate(r, updateActivity(room[r], now), ps[r]) >>
          \o DisconnectOut(rs \ {r}, ps)

\* socket.on('disconnect')
Disconnect(c) ==
  /\ cont = NoCont
  /\ sock[c] = "open"
  /\ sock' = [sock EXCEPT ![c] = "closed"]
  /\ pobj' = [r \in RoomIds |->
               IF r \notin reg THEN pobj[r]
               ELSE [p \in DOMAIN pobj[r] |->
                       IF p \in BoundTo(r, c)
                       THEN [pobj[r][p] EXCEPT !.connected = FALSE, !.connectionId = NoConn]
                       ELSE pobj[r][p]]]
  /\ room' = [r \in RoomIds |->
               IF r \in reg /\ BoundTo(r, c) # {} THEN updateActivity(room[r], now)
               ELSE room[r]]
  /\ out' = DisconnectOut({ r \in reg : BoundTo(r, c) # {} }, pobj')
  /\ UNCHANGED <<reg, game, inflight, cont, now>>

\* reconnect {playerId, lastRoomId} on socket c
Reconnect(c, pid, r) ==
  /\ cont = NoCont
  /\ sock[c] = "open"
  /\ IF r \notin reg \/ pid \notin Range(room[r].players)
     THEN /\ out' = << ErrorMsg(c, "RECONNECT_FAILED") >>
          /\ UNCHANGED <<room, pobj>>
     ELSE /\ pobj' = [pobj EXCEPT ![r][pid].connectionId = c, ![r][pid].connected = TRUE]
          /\ room' = [room EXCEPT ![r] = updateActivity(@, now)]
          /\ out' = << FullState(c, r, room'[r], pobj'[r], game[r], pid),
                       RoomUpdate(r, room'[r], pobj'[r]) >>
  /\ UNCHANGED <<reg, game, sock, inflight, cont, now>>

(***************************************************************************)
(* RoomStore.createRoom and joinRoom; handleCreateRoom, handleJoinRoom and *)
(* handleToggleReady                                                       *)
(***************************************************************************)
\* the player object that createRoom and joinRoom build, bound to socket c by
\* the handler
JoinedPlayer(nick, c) ==
  [NewPlayer(slice(nick, NICKNAME_MAX), c) EXCEPT !.ready = FALSE]

\* the players of a room with the object of player id added or replaced
Put(ps, id, obj) == [q \in DOMAIN ps \cup {id} |-> IF q = id THEN obj ELSE ps[q]]

\* createRoom {nickname, maxPlayers, playerId} on socket c; r is the room code
\* that generateUniqueRoomId returns and rnd the outcome of randomId(16)
CreateRoom(c, r, nick, maxPlayers, pidArg, rnd) ==
  /\ cont = NoCont
  /\ sock[c] = "open"
  /\ r \notin reg
  /\ IF nick = NoNick
     THEN /\ out' = << ErrorMsg(c, "BAD_PAYLOAD") >>
          /\ UNCHANGED <<reg, room, pobj, game>>
     ELSE LET id == IF pidArg # NoPlayer THEN pidArg ELSE rnd
              rm == [hostId |-> id, status |-> "waiting",
                     maxPlayers |-> MathMax(MIN_ROOM_PLAYERS,
                                            MathMin(MAX_ROOM_PLAYERS, maxPlayers)),
                     players |-> << id >>, lastActivityAt |-> now]
              ps == Put(EmptyMap, id, JoinedPlayer(nick, c))
          IN /\ reg' = reg \cup {r}
             /\ room' = [room EXCEPT ![r] = rm]
             /\ pobj' = [pobj EXCEPT ![r] = ps]
             /\ game' = [game EXCEPT ![r] = NoGame]
             /\ out' = << FullState(c, r, rm, ps, NoGame, id), RoomUpdate(r, rm, ps) >>
  /\ UNCHANGED <<sock, inflight, cont, now>>

\* the checks of RoomStore.joinRoom, in their order
JoinCheck(r, nick) ==
  IF r \notin reg THEN "ROOM_NOT_FOUND"
  ELSE IF GreaterEq(Len(room[r].players), room[r].maxPlayers) THEN "ROOM_FULL"
  ELSE IF room[r].status # "waiting" THEN "ROOM_NOT_JOINABLE"
  ELSE IF \E p \in Range(room[r].players) :
            toLowerCase(pobj[r][p].nickname) = toLowerCase(nick)
  THEN "NICKNAME_TAKEN"
  ELSE "OK"

\* joinRoom {nickname, roomId, playerId} on socket c; rnd is the outcome of
\* randomId(16), an id that no player of the room has
JoinRoom(c, r, nick, pidArg, rnd) ==
  /\ cont = NoCont
  /\ sock[c] = "open"
  /\ pidArg = NoPlayer => (r \in reg => rnd \notin Range(room[r].players))
  /\ IF nick = NoNick
     THEN /\ out' = << ErrorMsg(c, "BAD_PAYLOAD") >>
          /\ UNCHANGED <<room, pobj>>
     ELSE IF JoinCheck(r, nick) # "OK"
     THEN /\ out' = << ErrorMsg(c, JoinCheck(r, nick)) >>
          /\ UNCHANGED <<room, pobj>>
     ELSE LET attach == pidArg # NoPlayer /\ pidArg \in Range(room[r].players)
              id == IF pidArg # NoPlayer THEN pidArg ELSE rnd
              ps == IF attach
                    THEN [pobj[r] EXCEPT ![id].connectionId = c, ![id].connected = TRUE]
                    ELSE Put(pobj[r], id, JoinedPlayer(nick, c))
              rm == updateActivity(
                      [room[r] EXCEPT !.players = IF attach THEN @ ELSE Append(@, id)],
                      now)
          IN /\ pobj' = [pobj EXCEPT ![r] = ps]
             /\ room' = [room EXCEPT ![r] = rm]
             /\ out' = << FullState(c, r, rm, ps, game[r], id), RoomUpdate(r, rm, ps) >>
  /\ UNCHANGED <<reg, game, sock, inflight, cont, now>>

\* toggleReady {roomId, ready, playerId} on socket c
ToggleReady(c, r, ready, pidArg) ==
  /\ cont = NoCont
  /\ sock[c] = "open"
  /\ IF r \notin reg
     THEN /\ out' = << ErrorMsg(c, "ROOM_NOT_FOUND") >>
          /\ UNCHANGED <<room, pobj>>
     ELSE LET bound == playerBySocket(room[r], pobj[r], c)
              attach == /\ bound = NoPlayer
                        /\ pidArg # NoPlayer
                        /\ pidArg \in Range(room[r].players)
              player == IF attach THEN pidArg ELSE bound
          IN IF player = NoPlayer
             THEN /\ out' = << ErrorMsg(c, "NOT_IN_ROOM") >>
                  /\ UNCHANGED <<room, pobj>>
             ELSE /\ pobj' = [pobj EXCEPT ![r][player].ready = ready,
                                          ![r][player].connectionId = IF attach THEN c ELSE @]
                  /\ room' = [room EXCEPT ![r] = updateActivity(@, now)]
                  /\ out' = << RoomUpdate(r, room'[r], pobj'[r]) >>
  /\ UNCHANGED <<reg, game, sock, inflight, cont, now>>

(***************************************************************************)
(* index.ts: the room cleanup loop                                         *)
(***************************************************************************)
\* a sweep that finds a room idle as soon as the threshold is reached:
\* SweepDeletesIdle does not hold of it
IdleAtThreshold(r) ==
  /\ \A p \in Range(room[r].players) : ~pobj[r][p].connected
  /\ now - room[r].lastActivityAt >= ROOM_IDLE_CLEANUP

\* the sweep finds room r idle: no player connected, and the last activity
\* longer ago than the threshold
Idle(r) ==
  /\ \A p \in Range(room[r].players) : ~pobj[r][p].connected
  /\ now - room[r].lastActivityAt > ROOM_IDLE_CLEANUP

Sweep ==
  /\ cont = NoCont
  /\ reg' = { r \in reg : ~Idle(r) }
  /\ out' = <<>>
  /\ UNCHANGED <<room, pobj, game, sock, inflight, cont, now>>

(***************************************************************************)
(* The clock                                                               *)
(***************************************************************************)
AdvanceClock(t) ==
  /\ cont = NoCont
  /\ now < t
  /\ t <= MaxNow
  /\ now' = t
  /\ out' = <<>>
  /\ UNCHANGED <<reg, room, pobj, game, sock, inflight, cont>>

\* the clock of the idle rooms: time goes by up to MaxLobbyNow
Elapse(t) ==
  /\ cont = NoCont
  /\ now < t
  /\ t <= MaxLobbyNow
  /\ now' = t
  /\ out' = <<>>
  /\ UNCHANGED <<reg, room, pobj, game, sock, inflight, cont>>

\* the last instant at which the sweep finds a room still active, and the
\* first one at which it finds it idle
IdleTimes ==
  { room[r].lastActivityAt + ROOM_IDLE_CLEANUP + d : r \in reg, d \in {0, 1} }

\* the first instant at which the timer finds the turn of room r expired
Deadlines == { game[r].turnEndsAt + 1 : r \in { x \in RoomIds : game[x] # NoGame } }

(***************************************************************************)
(* A long game: every kind of move, the timer and leaveRoom, on a few      *)
(* well-formed inputs, until one of the two endings.                       *)
(***************************************************************************)
\* moves are submitted while the version is below MaxVersion
MayMove(r) == IF game[r] = NoGame THEN TRUE ELSE game[r].version < MaxVersion

\* the moves of one kind in the log
Logged(r, action) ==
  IF game[r] = NoGame THEN 0
  ELSE Cardinality({ i \in DOMAIN game[r].log : game[r].log[i].action = action })

MayPlay(r) == MayMove(r) /\ Logged(r, "play") < MaxPlays
MayExchange(r) == MayMove(r) /\ Logged(r, "exchange") < MaxExchanges

Next ==
  \/ \E c \in Conns, r \in RoomIds, seed \in Seeds :
       room[r].status = "waiting" /\ StartGame(c, r, NoPlayer, seed)
  \/ \E c \in Conns, r \in RoomIds : MayMove(r) /\ Pass(c, r)
  \/ \E c \in Conns, r \in RoomIds, seed \in Seeds :
       /\ MayExchange(r)
       /\ \E ids \in ExchangeInputs(RackOf(c, r)) : Exchange(c, r, ids, seed)
  \/ \E c \in Conns, r \in RoomIds :
       /\ MayPlay(r)
       /\ \E pls \in PlayInputs(RackOf(c, r), Shapes) : SubmitPlay(c, r, pls)
  \/ \E i \in Slots, refused \in 0..1 : ResumePlay(i, refused)
  \/ TurnTick
  \/ \E c \in Conns, r \in RoomIds : LeaveRoom(c, r)
  \/ LeaveRoomRemove
  \/ \E t \in Deadlines : AdvanceClock(t)

Spec == Init /\ [][Next]_vars

(***************************************************************************)
(* A short game: every action on inputs that reach every check, among them *)
(* malformed ones, while the version is below MaxShortVersion.             *)
(***************************************************************************)
Short(r) == IF game[r] = NoGame THEN TRUE ELSE game[r].version < MaxShortVersion

NextShort ==
  \/ \E c \in Conns, r \in RoomIds, seed \in Seeds : StartGame(c, r, NoPlayer, seed)
  \/ \E c \in Conns, r \in RoomIds : Short(r) /\ Pass(c, r)
  \/ \E c \in Conns, r \in RoomIds, seed \in Seeds :
       /\ Short(r)
       /\ \E ids \in WideExchangeInputs(RackOf(c, r)) : Exchange(c, r, ids, seed)
  \/ \E c \in Conns, r \in RoomIds :
       /\ Short(r)
       /\ \E pls \in PlayInputs(RackOf(c, r), WideShapes) : SubmitPlay(c, r, pls)
  \/ \E i \in Slots, refused \in 0..2 : ResumePlay(i, refused)
  \/ TurnTick
  \/ \E c \in Conns, r \in RoomIds : LeaveRoom(c, r)
  \/ LeaveRoomRemove
  \/ \E t \in Deadlines : AdvanceClock(t)

SpecShort == Init /\ [][NextShort]_vars

(***************************************************************************)
(* Connections: sockets close, players leave and are claimed again from    *)
(* the open sockets, around a short game of passes.                        *)
(***************************************************************************)
NextNet ==
  \/ \E c \in Conns, r \in RoomIds, seed \in Seeds : StartGame(c, r, NoPlayer, seed)
  \/ \E c \in Conns, r \in RoomIds : Short(r) /\ Pass(c, r)
  \/ TurnTick
  \/ \E c \in Conns, r \in RoomIds : LeaveRoom(c, r)
  \/ LeaveRoomRemove
  \/ \E c \in Conns : Disconnect(c)
  \/ \E c \in Conns, pid \in PlayerIds, r \in RoomIds : Reconnect(c, pid, r)
  \/ \E t \in Deadlines : AdvanceClock(t)

SpecNet == Init /\ [][NextNet]_vars

(***************************************************************************)
(* The lobby: no room yet, the sockets c1 and c2 are connected.  A room is  *)
(* created, joined and left; players toggle ready and start a game.  A     *)
(* room code is drawn once: the code of a deleted room does not come back. *)
(***************************************************************************)
\* the place of a room id that is not in the registry
NoRoom ==
  [hostId |-> NoPlayer, status |-> "waiting", maxPlayers |-> MAX_ROOM_PLAYERS,
   players |-> <<>>, lastActivityAt |-> 0]

InitLobby ==
  /\ reg = {}
  /\ room = [r \in RoomIds |-> NoRoom]
  /\ pobj = [r \in RoomIds |-> EmptyMap]
  /\ game = [r \in RoomIds |-> NoGame]
  /\ sock = [c \in Conns |-> "open"]
  /\ inflight = [i \in Slots |-> NoTask]
  /\ cont = NoCont
  /\ now = 0
  /\ out = <<>>

\* the nicknames that the clients of the lobby send: a room is created by
\* Ann, or without a nickname
HostNicknames == { NoNick, Ann }
Nicknames == HostNicknames \cup { ANN, Bob }
\* the maxPlayers of a createRoom: below and above the range, and no number
MaxPlayersInputs == { MIN_ROOM_PLAYERS - 1, MAX_ROOM_PLAYERS + 5, NaN }
\* a playerId of the payload, or none
PlayerArgs == PlayerIds \cup {NoPlayer}

NextLobby ==
  \/ \E c \in Conns, r \in RoomIds, nick \in HostNicknames, m \in MaxPlayersInputs,
        pid \in PlayerIds :
       room[r] = NoRoom /\ CreateRoom(c, r, nick, m, pid, pid)
  \/ \E c \in Conns, r \in RoomIds, nick \in Nicknames, pid \in PlayerIds :
       JoinRoom(c, r, nick, pid, pid) \/ JoinRoom(c, r, nick, NoPlayer, pid)
  \/ \E c \in Conns, r \in RoomIds, ready \in BOOLEAN, pid \in PlayerArgs :
       ToggleReady(c, r, ready, pid)
  \/ \E c \in Conns, r \in RoomIds, pid \in PlayerArgs, seed \in Seeds :
       StartGame(c, r, pid, seed)
  \/ \E c \in Conns, r \in RoomIds : LeaveRoom(c, r)
  \/ LeaveRoomRemove

SpecLobby == InitLobby /\ [][NextLobby]_vars

(***************************************************************************)
(* Bindings: the lobby messages that bind a socket to a player, with the   *)
(* sockets closing and the players claimed again.                          *)
(***************************************************************************)
NextBind ==
  \/ \E c \in Conns, r \in RoomIds, nick \in HostNicknames, pid \in PlayerIds :
       room[r] = NoRoom /\ CreateRoom(c, r, nick, MAX_ROOM_PLAYERS, pid, pid)
  \/ \E c \in Conns, r \in RoomIds, nick \in Nicknames, pid \in PlayerIds :
       JoinRoom(c, r, nick, NoPlayer, pid)
  \/ \E c \in Conns, r \in RoomIds, pid \in PlayerArgs :
       ToggleReady(c, r, TRUE, pid)
  \/ \E c \in Conns, r \in RoomIds, pid \in PlayerArgs, seed \in Seeds :
       StartGame(c, r, pid, seed)
  \/ \E c \in Conns : Disconnect(c)
  \/ \E c \in Conns, pid \in PlayerIds, r \in RoomIds : Reconnect(c, pid, r)

SpecBind == InitLobby /\ [][NextBind]_vars

(***************************************************************************)
(* The status of a room: a game of passes up to its end, with startGame    *)
(* and toggleReady sent at any time, the timer and leaveRoom.              *)
(***************************************************************************)
NextStatus ==
  \/ \E c \in Conns, r \in RoomIds, seed \in Seeds : StartGame(c, r, NoPlayer, seed)
  \/ \E c \in Conns, r \in RoomIds : ToggleReady(c, r, TRUE, NoPlayer)
  \/ \E c \in Conns, r \in RoomIds : MayMove(r) /\ Pass(c, r)
  \/ TurnTick
  \/ \E c \in Conns, r \in RoomIds : LeaveRoom(c, r)
  \/ LeaveRoomRemove
  \/ \E t \in Deadlines : AdvanceClock(t)

SpecStatus == Init /\ [][NextStatus]_vars

(***************************************************************************)
(* Idle rooms: from the room of Init, sockets close, players are claimed   *)
(* again, toggle ready and leave, time goes by and the sweep runs.         *)
(***************************************************************************)
NextIdle ==
  \/ \E c \in Conns : Disconnect(c)
  \/ \E c \in Conns, pid \in PlayerIds, r \in RoomIds : Reconnect(c, pid, r)
  \/ \E c \in Conns, r \in RoomIds : ToggleReady(c, r, TRUE, NoPlayer)
  \/ \E c \in Conns, r \in RoomIds : LeaveRoom(c, r)
  \/ Sweep
  \/ \E t \in IdleTimes : Elapse(t)

SpecIdle == Init /\ [][NextIdle]_vars

(***************************************************************************)
(* A room of three: p1, p2 and p3 have joined on the sockets c1, c2 and c3 *)
(* and are ready; a short game of passes, with the timer and leaveRoom.    *)
(***************************************************************************)
InitThree ==
  /\ reg = {"R1"}
  /\ room = [r \in RoomIds |->
               [hostId |-> "p1", status |-> "waiting", maxPlayers |-> 4,
                players |-> <<"p1", "p2", "p3">>, lastActivityAt |-> 0]]
  /\ pobj = [r \in RoomIds |->
               [p \in Seats |-> IF p = "p1" THEN NewPlayer(Ann, "c1")
                                ELSE IF p = "p2" THEN NewPlayer(Bob, "c2")
                                ELSE NewPlayer(Cid, "c3")]]
  /\ game = [r \in RoomIds |-> NoGame]
  /\ sock = [c \in Sockets |-> "open"]
  /\ inflight = [i \in Slots |-> NoTask]
  /\ cont = NoCont
  /\ now = 0
  /\ out = <<>>

NextThree ==
  \/ \E c \in Sockets, r \in RoomIds, seed \in Seeds :
       room[r].status = "waiting" /\ StartGame(c, r, NoPlayer, seed)
  \/ \E c \in Sockets, r \in RoomIds : Short(r) /\ Pass(c, r)
  \/ TurnTick
  \/ \E c \in Sockets, r \in RoomIds : LeaveRoom(c, r)
  \/ LeaveRoomRemove
  \/ \E t \in Deadlines : AdvanceClock(t)

SpecThree == InitThree /\ [][NextThree]_vars

(***************************************************************************)
(* The room of three players under a fair timer: time always reaches the   *)
(* end of the running turn, the interval of the turn tick always fires and *)
(* a handler suspended at its await always continues.  Clients are bound   *)
(* by no fairness: they may stay silent.                                   *)
(***************************************************************************)
\* no game of passes lasts longer than this
MaxLiveNow == 2 * (MAX_CONSECUTIVE_PASSES + MaxShortVersion)

\* time goes by until the end of a running turn has passed
TimePasses(t) ==
  /\ cont = NoCont
  /\ now < t
  /\ t <= MaxLiveNow
  /\ now' = t
  /\ out' = <<>>
  /\ UNCHANGED <<reg, room, pobj, game, sock, inflight, cont>>

NextLive ==
  \/ \E c \in Sockets, r \in RoomIds, seed \in Seeds :
       room[r].status = "waiting" /\ StartGame(c, r, NoPlayer, seed)
  \/ \E c \in Sockets, r \in RoomIds : Short(r) /\ Pass(c, r)
  \/ TurnTick
  \/ \E c \in Sockets, r \in RoomIds : LeaveRoom(c, r)
  \/ LeaveRoomRemove
  \/ \E c \in Sockets : Disconnect(c)
  \/ \E t \in Deadlines : TimePasses(t)

Fairness ==
  /\ WF_vars(TurnTick)
  /\ WF_vars(LeaveRoomRemove)
  /\ WF_vars(\E t \in Deadlines : TimePasses(t))

SpecLive == InitThree /\ [][NextLive]_vars /\ Fairness

(***************************************************************************)
(* What a step shows to its observers                                      *)
(***************************************************************************)
\* the step applied a move to room r: playMove returned to handlePlayMove or
\* to the timer (both emit turnUpdate), or to handleLeaveRoom
Moved(r) ==
  \/ \E i \in DOMAIN out' : out'[i].type = "turnUpdate" /\ out'[i].to = r
  \/ /\ cont = NoCont
     /\ cont' # NoCont
     /\ (IF cont' = NoCont THEN FALSE ELSE cont'.room = r)

\* the step answered a playMove on room r with invalidMove
Rejected(r) ==
  \E i \in DOMAIN out' : out'[i].type = "invalidMove" /\ out'[i].roomId = r

\* the copies of tile id in the bag, on the racks of the room's players and
\* on the board of room r
Copies(r, id) ==
  Cardinality({ i \in DOMAIN game[r].bag : game[r].bag[i] = id })
  + SumSeq([k \in DOMAIN room[r].players |->
             Cardinality({ i \in DOMAIN pobj[r][room[r].players[k]].rack :
                             pobj[r][room[r].players[k]].rack[i] = id })])
  + Cardinality({ c \in DOMAIN game[r].board : game[r].board[c].id = id })

(***************************************************************************)
(* Claims                                                                  *)
(***************************************************************************)
\* C1: while a play is suspended at await isWordValid, no other mutation of
\* its room is applied: the room, its players and its game stay as they are
\* until the play has committed or been rejected.
NoInterleaving ==
  [][\A i \in Slots :
       (inflight[i] # NoTask /\ inflight'[i] = inflight[i])
       => /\ room'[inflight[i].room] = room[inflight[i].room]
          /\ pobj'[inflight[i].room] = pobj[inflight[i].room]
          /\ game'[inflight[i].room] = game[inflight[i].room]]_vars

\* C2: every move that is applied (logged) is a move of the player who is
\* active when it is applied, so of a forced pass and a submission for the
\* same turn only one takes effect.
MovesByActivePlayer ==
  [][\A r \in RoomIds :
       (/\ game[r] # NoGame
        /\ game'[r] # NoGame
        /\ Len(game'[r].log) = Len(game[r].log) + 1)
       => game'[r].log[Len(game'[r].log)].playerId = game[r].activePlayerId]_vars

\* C3: in a room with a game, the bag, the board and the racks of the room's
\* players hold every tile of the initial distribution exactly once, and
\* nothing else.
TileConservation ==
  \A r \in RoomIds :
    game[r] # NoGame
    => /\ \A id \in TileIds : Copies(r, id) = 1
       /\ \A c \in DOMAIN game[r].board : game[r].board[c].id \in TileIds

\* C4: a rack never holds more than seven tiles, and holds fewer only when
\* the bag is empty.
RackBound ==
  \A r \in RoomIds :
    game[r] # NoGame
    => \A p \in Range(room[r].players) :
         /\ Len(pobj[r][p].rack) <= RACK_SIZE
         /\ Len(pobj[r][p].rack) < RACK_SIZE => Len(game[r].bag) = 0

\* C5: startGame creates the game with version 1; the version goes up by
\* exactly one on every move that is applied (play, pass, exchange, forced
\* pass of the timer or of leaveRoom) and stays as it is on every other step,
\* a rejected move among them.
VersionCounts ==
  [][\A r \in RoomIds :
       /\ (game[r] = NoGame /\ game'[r] # NoGame) => game'[r].version = 1
       /\ (game[r] # NoGame)
          => /\ game'[r] # NoGame
             /\ game'[r].version = game[r].version + (IF Moved(r) THEN 1 ELSE 0)]_vars

\* a second move has been accepted
VersionCountsWitness ==
  \E r \in RoomIds :
    /\ game[r] # NoGame
    /\ game[r].version = 3
    /\ \E i \in DOMAIN out : out[i].type = "moveAccepted"

\* C6: after every move that is applied, turnIndex has advanced by one modulo
\* the number of players, activePlayerId is the id of players[turnIndex], and
\* turnEndsAt is TURN_DURATION after now, in the future.
TurnAdvances ==
  [][\A r \in RoomIds :
       Moved(r)
       => /\ game'[r].turnIndex = (game[r].turnIndex + 1) % Len(room[r].players)
          /\ game'[r].activePlayerId =
               room'[r].players[(game'[r].turnIndex % Len(room'[r].players)) + 1]
          /\ game'[r].turnEndsAt = now' + TURN_DURATION
          /\ game'[r].turnEndsAt > now']_vars

\* the turn has gone round the two players and is back at the first
TurnAdvancesWitness ==
  \E r \in RoomIds :
    /\ game[r] # NoGame
    /\ Len(room[r].players) = 2
    /\ game[r].version = 3
    /\ game[r].turnIndex = 0
    /\ game[r].activePlayerId = room[r].players[1]

\* C7: a playMove that is answered with invalidMove leaves the room, its
\* players (racks, scores) and its game (board, bag, bonusUsed,
\* consecutivePasses, turn pointer, version) as they were.  The rooms are
\* those of the registry: a room that has lost its last player is deleted,
\* and no request reads it again.
RejectedMutatesNothing ==
  [][\A r \in reg :
       Rejected(r) => room'[r] = room[r] /\ pobj'[r] = pobj[r] /\ game'[r] = game[r]]_vars

\* a play on a cell that holds a tile has been rejected
RejectedWitness ==
  \E i \in DOMAIN out :
    /\ out[i].type = "invalidMove"
    /\ out[i].reason = Text("CELL_OCCUPIED")
    /\ out[i].roomId \in reg

\* C8: a play that the dictionary refuses is answered with an invalidMove
\* whose reason is the error code INVALID_WORD.
DictionaryRefusalReason ==
  [][\A i \in Slots :
       (inflight[i] # NoTask /\ inflight'[i] = NoTask)
       => \A j \in DOMAIN out' :
            out'[j].type = "invalidMove" => out'[j].reason = Text("INVALID_WORD")]_vars

\* C9: a room that is playing has fewer than MAX_CONSECUTIVE_PASSES
\* consecutive passes, and it becomes finished exactly on a move after which
\* the bag is empty and a rack is empty, or the consecutive passes have
\* reached MAX_CONSECUTIVE_PASSES.
FinishedExactlyAtEnd ==
  [][\A r \in RoomIds :
       /\ (game'[r] # NoGame /\ room'[r].status = "playing")
          => game'[r].consecutivePasses < MAX_CONSECUTIVE_PASSES
       /\ (game[r] # NoGame /\ room[r].status = "playing")
          => (room'[r].status = "finished"
              <=> /\ Moved(r)
                  /\ \/ /\ Len(game'[r].bag) = 0
                        /\ \E p \in Range(room'[r].players) : pobj'[r][p].rack = <<>>
                     \/ game'[r].consecutivePasses >= MAX_CONSECUTIVE_PASSES)]_vars

\* a game has ended on its sixth consecutive pass
SixPassesEnd ==
  \E r \in RoomIds :
    /\ room[r].status = "finished"
    /\ game[r].consecutivePasses = MAX_CONSECUTIVE_PASSES

\* C10: on the move that ends the game, every player of the room loses the
\* value of the tiles left on the own rack, and the only player whose rack is
\* empty gains the sum of the values of the other racks (the mover has first
\* been given the score of the move).
EndScoring ==
  [][\A r \in RoomIds :
       (room[r].status = "playing" /\ room'[r].status = "finished")
       => LET pl == room'[r].players
              last == game'[r].log[Len(game'[r].log)]
              empty == { p \in Range(pl) : pobj'[r][p].rack = <<>> }
              others(p) == SumSeq([k \in DOMAIN pl |->
                                    IF pl[k] = p THEN 0
                                    ELSE RackValue(pobj'[r][pl[k]].rack)])
          IN \A p \in Range(pl) :
               pobj'[r][p].score =
                 pobj[r][p].score
                 + (IF last.playerId = p THEN last.score ELSE 0)
                 - RackValue(pobj'[r][p].rack)
                 + (IF empty = {p} THEN others(p) ELSE 0)]_vars

\* a game has ended on a play that emptied a rack while another rack holds
\* tiles of some value
EndScoringWitness ==
  \E r \in RoomIds :
    /\ room[r].status = "finished"
    /\ \E p, q \in Range(room[r].players) :
         /\ pobj[r][p].rack = <<>>
         /\ RackValue(pobj[r][q].rack) > 0

\* C11: once the status of a room is finished its game is frozen: no step
\* (playMove, timer tick, leaveRoom) changes the game state (board, bag, log,
\* turn pointer, version, consecutivePasses), nor the rack or the score of a
\* player who stays in the room.
FrozenWhenFinished ==
  [][\A r \in RoomIds :
       (r \in reg /\ room[r].status = "finished")
       => /\ game'[r] = game[r]
          /\ \A p \in Range(room'[r].players) :
               /\ pobj'[r][p].rack = pobj[r][p].rack
               /\ pobj'[r][p].score = pobj[r][p].score]_vars

\* the game state summaries that a message carries
Summaries(m) ==
  IF m.type = "gameState" THEN << m.gameState >>
  ELSE IF m.type = "fullState" THEN m.gameState
  ELSE <<>>

\* C12: every gameState or fullState message goes to a connection that is
\* bound to a player of the room and carries in myRack the rack of such a
\* player; no tile of the rack of a player who is not bound to that
\* connection is in it.
RackPrivacy ==
  \A i \in DOMAIN out :
    \A k \in DOMAIN Summaries(out[i]) :
      LET r == out[i].roomId
          mine == Summaries(out[i])[k].myRack
      IN /\ \E p \in Range(room[r].players) :
              /\ pobj[r][p].connectionId = out[i].to
              /\ pobj[r][p].rack = mine
         /\ \A q \in Range(room[r].players) :
              pobj[r][q].connectionId # out[i].to
              => Range(pobj[r][q].rack) \cap Range(mine) = {}

\* a step has sent two players their own, different racks
RackPrivacyWitness ==
  \E i, j \in DOMAIN out :
    /\ out[i].type = "gameState"
    /\ out[j].type = "gameState"
    /\ out[i].to # out[j].to
    /\ out[i].gameState.myRack # <<>>
    /\ out[j].gameState.myRack # <<>>
    /\ out[i].gameState.myRack # out[j].gameState.myRack

\* the player after the active one in the turn order of room r: the next one
\* in the player list, the first one after the last
NextInTurn(r) ==
  LET i == FindIndex(room[r].players, game[r].activePlayerId)
  IN room[r].players[(i % Len(room[r].players)) + 1]

\* C13: a turn tick passes, for every playing room whose turn deadline has
\* passed, the turn of the active player: the passes of that player and
\* consecutivePasses grow by one, the version grows by one, the next player
\* in turn order becomes active and a turnUpdate naming that player is
\* broadcast; every other room is left as it is.
TimeoutPasses ==
  [][TurnTick
     => \A r \in RoomIds :
          IF Expired(r)
          THEN LET a == game[r].activePlayerId
               IN /\ pobj'[r][a].stats.passes = pobj[r][a].stats.passes + 1
                  /\ game'[r].consecutivePasses = game[r].consecutivePasses + 1
                  /\ game'[r].version = game[r].version + 1
                  /\ game'[r].activePlayerId = NextInTurn(r)
                  /\ \E i \in DOMAIN out' :
                       /\ out'[i].type = "turnUpdate"
                       /\ out'[i].to = r
                       /\ out'[i].activePlayerId = NextInTurn(r)
          ELSE room'[r] = room[r] /\ pobj'[r] = pobj[r] /\ game'[r] = game[r]]_vars

\* C14: a sweep deletes a room of the registry if and only if none of its
\* players is connected and the last activity is more than
\* ROOM_IDLE_CLEANUP ago; it adds no room, and leaves the rooms as they are.
SweepDeletesIdle ==
  [][Sweep
     => /\ reg' \subseteq reg
        /\ room' = room /\ pobj' = pobj /\ game' = game
        /\ \A r \in reg :
             r \notin reg'
             <=> /\ \A p \in Range(room[r].players) : ~pobj[r][p].connected
                 /\ now - room[r].lastActivityAt > ROOM_IDLE_CLEANUP]_vars

\* the sweep has deleted a room that still has players
SweptWitness ==
  \E r \in RoomIds :
    /\ r \notin reg
    /\ room[r].players # <<>>
    /\ now - room[r].lastActivityAt > ROOM_IDLE_CLEANUP

\* the error codes of joinRoom whose condition holds for a join of room r
\* under this nickname
JoinErrors(r, nick) ==
  (IF r \notin reg THEN {"ROOM_NOT_FOUND"} ELSE {})
  \cup (IF r \in reg /\ Len(room[r].players) >= room[r].maxPlayers
        THEN {"ROOM_FULL"} ELSE {})
  \cup (IF r \in reg /\ room[r].status # "waiting" THEN {"ROOM_NOT_JOINABLE"} ELSE {})
  \cup (IF r \in reg /\ \E p \in Range(room[r].players) :
                           toLowerCase(pobj[r][p].nickname) = toLowerCase(nick)
        THEN {"NICKNAME_TAKEN"} ELSE {})

\* C15: a joinRoom of an unknown room, of a full room, of a room that is not
\* waiting or under a nickname that is taken (ignoring case) is answered with
\* the error code of one of the conditions that hold and changes nothing; a
\* room never has more players than its maxPlayers, a number from
\* MIN_ROOM_PLAYERS to MAX_ROOM_PLAYERS.
JoinFailures ==
  [][/\ \A c \in Conns, r \in RoomIds, nick \in Nicknames \ {NoNick},
          pidArg \in PlayerArgs, rnd \in PlayerIds :
          (JoinRoom(c, r, nick, pidArg, rnd) /\ JoinErrors(r, nick) # {})
          => /\ \E i \in DOMAIN out' :
                  /\ out'[i].type = "error"
                  /\ out'[i].to = c
                  /\ out'[i].code \in JoinErrors(r, nick)
             /\ reg' = reg /\ room' = room /\ pobj' = pobj /\ game' = game
     /\ \A r \in reg' :
          /\ room'[r].maxPlayers \in MIN_ROOM_PLAYERS..MAX_ROOM_PLAYERS
          /\ Len(room'[r].players) <= room'[r].maxPlayers]_vars

\* C16: a joinRoom with the playerId of a member of the room is a re-attach:
\* it is not answered with an error, the player list stays as it is and the
\* calling socket is bound to that player.
ReattachSucceeds ==
  [][\A c \in Conns, r \in RoomIds, nick \in Nicknames \ {NoNick}, pid \in PlayerIds :
       (/\ r \in reg
        /\ pid \in Range(room[r].players)
        /\ JoinRoom(c, r, nick, pid, pid))
       => /\ \A i \in DOMAIN out' : out'[i].type # "error"
          /\ room'[r].players = room[r].players
          /\ pobj'[r][pid].connectionId = c]_vars

Requester(c, r, pidArg) ==
  IF playerBySocket(room[r], pobj[r], c) # NoPlayer
  THEN playerBySocket(room[r], pobj[r], c)
  ELSE IF pidArg \in Range(room[r].players) THEN pidArg ELSE NoPlayer

\* C18: a startGame from the host of a waiting room of at least two and not
\* more than maxPlayers players who are all ready starts the game; any other
\* startGame is answered with an error and leaves the room, its players and
\* its game as they were.  A room with a game is playing or finished.
StartGameGated ==
  [][/\ \A c \in Conns, r \in RoomIds, pidArg \in PlayerArgs, seed \in Seeds :
          StartGame(c, r, pidArg, seed)
          => IF /\ r \in reg
                /\ Requester(c, r, pidArg) # NoPlayer
                /\ Requester(c, r, pidArg) = room[r].hostId
                /\ Len(room[r].players) >= 2
                /\ ~Greater(Len(room[r].players), room[r].maxPlayers)
                /\ \A p \in Range(room[r].players) : pobj[r][p].ready
                /\ room[r].status = "waiting"
             THEN /\ room'[r].status = "playing"
                  /\ game'[r] # NoGame
             ELSE /\ \E i \in DOMAIN out' : out'[i].type = "error" /\ out'[i].to = c
                  /\ room' = room /\ pobj' = pobj /\ game' = game
     /\ \A r \in reg' :
          game'[r] # NoGame => room'[r].status \in {"playing", "finished"}]_vars

\* C19: no two players of the rooms of the registry, of one room or of two,
\* are bound to the same connection.
OneBindingPerConnection ==
  \A r1 \in reg, r2 \in reg :
    \A p \in Range(room[r1].players), q \in Range(room[r2].players) :
      (<<r1, p>> # <<r2, q>> /\ pobj[r1][p].connectionId # NoConn)
      => pobj[r1][p].connectionId # pobj[r2][q].connectionId

\* C20: the disconnect of socket c marks the players whose binding is c as
\* disconnected and clears their binding, and changes nothing else of them;
\* it leaves every other player, the player lists, the hosts, the statuses,
\* the registry, the games and the suspended plays as they are.
DisconnectFrame ==
  [][\A c \in Conns :
       Disconnect(c)
       => /\ reg' = reg /\ game' = game /\ inflight' = inflight
          /\ \A r \in reg :
               /\ room'[r] = [room[r] EXCEPT !.lastActivityAt = room'[r].lastActivityAt]
               /\ \A p \in Range(room[r].players) :
                    pobj'[r][p] =
                      IF pobj[r][p].connectionId = c
                      THEN [pobj[r][p] EXCEPT !.connected = FALSE, !.connectionId = NoConn]
                      ELSE pobj[r][p]]_vars

\* a player who was rebound to the other socket is connected while the
\* socket of before is closed, and the other player is connected too
ReboundStaysConnected ==
  \E r \in reg :
    /\ sock["c1"] = "closed"
    /\ room[r].players = <<"p1", "p2">>
    /\ pobj[r]["p1"].connected
    /\ pobj[r]["p1"].connectionId = "c2"
    /\ pobj[r]["p2"].connected
    /\ out = <<>>

\* C21: leaveRoom of the active player of a game first passes the turn of
\* that player (the next player in turn order is active, the version grows by
\* one, the player list is still whole) and then removes the player, after
\* which the active player is a member of the room if the room is still
\* there; leaveRoom of another player removes that player and leaves the
\* game, and with it the active player, as it is.
LeaveAfterPass ==
  [][/\ \A c \in Sockets, r \in RoomIds :
          LeaveRoom(c, r) /\ game[r] # NoGame
          => LET pid == playerBySocket(room[r], pobj[r], c)
             IN IF game[r].activePlayerId = pid
                THEN /\ game'[r].activePlayerId = NextInTurn(r)
                     /\ game'[r].version = game[r].version + 1
                     /\ room'[r].players = room[r].players
                ELSE /\ game'[r] = game[r]
                     /\ pid \notin Range(room'[r].players)
     /\ LeaveRoomRemove
          => /\ game' = game
             /\ cont.pid \notin Range(room'[cont.room].players)
             /\ cont.room \in reg'
                  => game'[cont.room].activePlayerId \in Range(room'[cont.room].players)]_vars

\* the moves at the end of the log that are not plays
RECURSIVE TrailingSkips(_)
TrailingSkips(log) ==
  IF log = <<>> THEN 0
  ELSE IF log[Len(log)].action = "play" THEN 0
  ELSE 1 + TrailingSkips(SubSeq(log, 1, Len(log) - 1))

LetterCount(bag, l) == Cardinality({ i \in DOMAIN bag : TileLetter(bag[i]) = l })

\* C23: an accepted exchange (at least one tile id, no more ids than tiles in
\* the bag, every id in the rack) leaves the player's rack at the size it had
\* and the bag with the letters it had, each as many times as before.
ExchangeRoundTrip ==
  [][\A c \in Conns, r \in RoomIds, seed \in Seeds :
       \A ids \in WideExchangeInputs(RackOf(c, r)) :
         /\ Exchange(c, r, ids, seed)
         /\ Submitter(c, r).err = "OK"
         /\ PlayMoveGuard(room[r], game[r], Submitter(c, r).pid) = "OK"
         /\ CheckExchange(game[r], RackOf(c, r), ids) = "OK"
         => LET pid == Submitter(c, r).pid
            IN /\ Len(pobj'[r][pid].rack) = Len(pobj[r][pid].rack)
               /\ \A id \in TileIds :
                    LetterCount(game'[r].bag, TileLetter(id))
                      = LetterCount(game[r].bag, TileLetter(id))]_vars

\* the rule of the legal-placement list that an error code reports
RuleOf(code) ==
  CASE code = "NO_PLACEMENTS" -> 1
    [] code \in {"OUT_OF_BOUNDS", "CELL_OCCUPIED"} -> 2
    [] code \in {"TILE_NOT_IN_RACK", "DUPLICATE_TILE"} -> 3
    [] code = "NOT_ALIGNED" -> 4
    [] code = "MUST_COVER_CENTER" -> 5
    [] code = "NOT_CONTIGUOUS" -> 6
    [] code = "NOT_CONNECTED" -> 7
    [] code = "INVALID_WORD" -> 8
    [] OTHER -> 0

\* the placements break rule n (1 to 7) on board b with the tiles of rack;
\* rules 6 and 7 are read for placements on one line
Breaks(n, b, rack, pls) ==
  CASE n = 1 -> pls = <<>>
    [] n = 2 -> \E i \in DOMAIN pls : ~InBounds(PCell(pls[i])) \/ HasTile(b, PCell(pls[i]))
    [] n = 3 -> \/ \E i \in DOMAIN pls : pls[i].tileId \notin Range(rack)
                \/ \E i, j \in DOMAIN pls : i # j /\ pls[i].tileId = pls[j].tileId
    [] n = 4 -> /\ \E i, j \in DOMAIN pls : pls[i].y # pls[j].y
                /\ \E i, j \in DOMAIN pls : pls[i].x # pls[j].x
    [] n = 5 -> b = EmptyMap /\ \A i \in DOMAIN pls : PCell(pls[i]) # <<CENTER, CENTER>>
    [] n = 6 -> LET xs == { pls[i].x : i \in DOMAIN pls }
                    ys == { pls[i].y : i \in DOMAIN pls }
                IN \E x \in Min(xs)..Max(xs), y \in Min(ys)..Max(ys) :
                     ~HasTile(b, <<x, y>>) /\ ~PlacedAt(pls, <<x, y>>)
    [] n = 7 -> /\ b # EmptyMap
                /\ \A i \in DOMAIN pls :
                     \A nb \in Neighbours(PCell(pls[i])) : ~HasTile(b, nb)

\* the first rule of the list that the placements break, 0 if none
FirstBroken(b, rack, pls) ==
  IF Breaks(1, b, rack, pls) THEN 1
  ELSE IF Breaks(2, b, rack, pls) THEN 2
  ELSE IF Breaks(3, b, rack, pls) THEN 3
  ELSE IF Breaks(4, b, rack, pls) THEN 4
  ELSE IF Breaks(5, b, rack, pls) THEN 5
  ELSE IF Breaks(6, b, rack, pls) THEN 6
  ELSE IF Breaks(7, b, rack, pls) THEN 7
  ELSE 0

\* C24: in every state of a game, whatever placements the active player
\* submits, a play that breaks one or more of the rules 1 to 7 is refused with
\* the error of the first rule it breaks, in the order of the list; only a
\* play that breaks none goes on to the dictionary (or is refused for forming
\* no word at all), so that the refusal of the dictionary comes last.
PlayCheckOrder ==
  \A r \in reg :
    game[r] # NoGame /\ PlayMoveGuard(room[r], game[r], game[r].activePlayerId) = "OK"
    => LET pid == game[r].activePlayerId
       IN \A pls \in PlayInputs(pobj[r][pid].rack, WideShapes) :
            LET e == PlayCheck(room[r], pobj[r], game[r], pid, pls).err
                n == FirstBroken(game[r].board, pobj[r][pid].rack, pls)
            IN IF n = 0 THEN e \in {"OK", "NO_WORD_FORMED"} ELSE RuleOf(e) = n

\* a play beyond the right edge of the empty board, which does not cover the
\* centre either, has been answered with the error of the cells
PlayCheckOrderWitness ==
  \E c \in Conns, r \in reg :
    /\ game[r] # NoGame
    /\ boardIsEmpty(game[r].board)
    /\ out = << InvalidMove(c, r, Text("OUT_OF_BOUNDS")) >>

\* the cells that hold a tile once the placements are on the board
Covered(b, pls, c) == InBounds(c) /\ (HasTile(b, c) \/ PlacedAt(pls, c))

\* the word through cell c along d (<<1, 0>> along the row, <<0, 1>> down the
\* column): the cells reached from c over covered cells only
WordThrough(b, pls, c, d) ==
  { e \in { <<c[1] + k * d[1], c[2] + k * d[2]>> : k \in (1 - BOARD_SIZE)..(BOARD_SIZE - 1) } :
      \A j \in (1 - BOARD_SIZE)..(BOARD_SIZE - 1) :
        LET m == <<c[1] + j * d[1], c[2] + j * d[2]>>
        IN (\/ (c[1] <= m[1] /\ m[1] <= e[1] /\ c[2] <= m[2] /\ m[2] <= e[2])
            \/ (e[1] <= m[1] /\ m[1] <= c[1] /\ e[2] <= m[2] /\ m[2] <= c[2]))
           => Covered(b, pls, m) }

\* the value of the tile that the placements put on cell c
PlacedValue(pls, c) ==
  TileValue(pls[Max({ i \in DOMAIN pls : PCell(pls[i]) = c })].tileId)

RECURSIVE SumOver(_, _, _, _)
SumOver(S, b, bonusUsed, pls) ==
  IF S = {} THEN 0
  ELSE LET c == CHOOSE x \in S : TRUE
           premium == IF c \in bonusUsed THEN "none" ELSE Bonus(c)
           v == IF PlacedAt(pls, c)
                THEN PlacedValue(pls, c)
                     * (IF premium = "DL" THEN 2 ELSE IF premium = "TL" THEN 3 ELSE 1)
                ELSE IF HasTile(b, c) THEN TileValue(b[c].id) ELSE 0
       IN v + SumOver(S \ {c}, b, bonusUsed, pls)

RECURSIVE WordMultiplier(_, _, _)
WordMultiplier(S, bonusUsed, pls) ==
  IF S = {} THEN 1
  ELSE LET c == CHOOSE x \in S : TRUE
           premium == IF c \in bonusUsed \/ ~PlacedAt(pls, c) THEN "none" ELSE Bonus(c)
       IN (IF premium = "DW" THEN 2 ELSE IF premium = "TW" THEN 3 ELSE 1)
          * WordMultiplier(S \ {c}, bonusUsed, pls)

\* sum(letter value x letter multiplier) x product(word multipliers) of a word
WordScore(S, b, bonusUsed, pls) ==
  SumOver(S, b, bonusUsed, pls) * WordMultiplier(S, bonusUsed, pls)

RECURSIVE SumWords(_, _, _, _)
SumWords(W, b, bonusUsed, pls) ==
  IF W = {} THEN 0
  ELSE LET S == CHOOSE x \in W : TRUE
       IN WordScore(S, b, bonusUsed, pls) + SumWords(W \ {S}, b, bonusUsed, pls)

\* the words of a play: the word along the line of the placements and the
\* words across it through each placed cell, those of two cells or more
WordsOf(b, pls) ==
  LET along == IF SameRow(pls) THEN <<1, 0>> ELSE <<0, 1>>
      across == IF SameRow(pls) THEN <<0, 1>> ELSE <<1, 0>>
      all == { WordThrough(b, pls, PCell(pls[1]), along) }
             \cup { WordThrough(b, pls, PCell(pls[i]), across) : i \in DOMAIN pls }
  IN { S \in all : Cardinality(S) >= 2 }

\* the score of a play on board b: its words, and 50 for seven tiles placed
MoveScore(b, bonusUsed, pls) ==
  SumWords(WordsOf(b, pls), b, bonusUsed, pls)
  + (IF Len(pls) = RACK_SIZE THEN BINGO_BONUS ELSE 0)

\* the step commits the play of slot i
Commits(i) ==
  /\ inflight[i] # NoTask
  /\ ResumePlay(i, 0)
  /\ Len(game'[inflight[i].room].log) = Len(game[inflight[i].room].log) + 1

\* C25: the score of an accepted play, as logged in its move and as added to
\* the score of the player, is the score of the main word plus the scores of
\* the cross-words of two letters or more, plus 50 if seven tiles were placed.
PlayScoreLaw ==
  [][\A i \in Slots :
       Commits(i)
       => LET r == inflight[i].room
              pls == inflight[i].k.placements
              pid == inflight[i].k.pid
              s == MoveScore(game[r].board, game[r].bonusUsed, pls)
          IN /\ game'[r].log[Len(game'[r].log)].score = s
             /\ room'[r].status = "playing"
                  => pobj'[r][pid].score = pobj[r][pid].score + s]_vars


\* C26: the score of an accepted play of one tile is the score of the row
\* word through the tile if it has two letters or more, plus the score of
\* the column word through the tile if it has two letters or more; a span of
\* the tile alone adds nothing.
SingleTileScore ==
  [][\A i \in Slots :
       Commits(i) /\ Len(inflight[i].k.placements) = 1
       => LET r == inflight[i].room
              pls == inflight[i].k.placements
              b == game[r].board
              row == WordThrough(b, pls, PCell(pls[1]), <<1, 0>>)
              col == WordThrough(b, pls, PCell(pls[1]), <<0, 1>>)
          IN game'[r].log[Len(game'[r].log)].score
               = (IF Cardinality(row) >= 2
                  THEN WordScore(row, b, game[r].bonusUsed, pls) ELSE 0)
                 + (IF Cardinality(col) >= 2
                    THEN WordScore(col, b, game[r].bonusUsed, pls) ELSE 0)]_vars


\* the cells of a span kept by a play
SpanCells(span) == { LineCell(span.dir, span.line, i) : i \in span.lo..span.hi }

RECURSIVE SumSpans(_, _, _, _)
SumSpans(spans, b, bonusUsed, pls) ==
  IF spans = <<>> THEN 0
  ELSE WordScore(SpanCells(Head(spans)), b, bonusUsed, pls)
       + SumSpans(Tail(spans), b, bonusUsed, pls)

\* C27: the premium of a cell counts in one move at most, the one that puts a
\* tile on the cell.  Within a game the cells marked as used are never
\* unmarked; a play marks every premium cell it covers; and the score of a
\* play, over the spans it scores, takes premiums from the cells that held
\* no tile before it only, every cell covered earlier counting at face value.
BonusSingleUse ==
  [][\A r \in RoomIds :
       /\ (IF game[r] = NoGame \/ game'[r] = NoGame THEN FALSE
           ELSE game'[r].version > game[r].version)
            => game[r].bonusUsed \subseteq game'[r].bonusUsed
       /\ \A i \in Slots :
            Commits(i) /\ inflight[i].room = r
            => LET pls == inflight[i].k.placements
               IN /\ \A k \in DOMAIN pls :
                       Bonus(PCell(pls[k])) # "none" => PCell(pls[k]) \in game'[r].bonusUsed
                  /\ game'[r].log[Len(game'[r].log)].score
                       = SumSpans(<<inflight[i].k.main>> \o inflight[i].k.cross,
                                  game[r].board, DOMAIN game[r].board, pls)
                         + (IF Len(pls) = RACK_SIZE THEN BINGO_BONUS ELSE 0)]_vars

\* seven tiles have been played down from (7,8), below the centre covered
\* by an earlier move: the word of that play runs through the centre
BonusSingleUseWitness ==
  \E r \in reg :
    /\ game[r] # NoGame
    /\ <<CENTER, CENTER>> \in game[r].bonusUsed
    /\ \E k \in DOMAIN game[r].log :
         /\ k >= 2
         /\ game[r].log[k].action = "play"
         /\ Len(game[r].log[k].placements) = RACK_SIZE
         /\ PCell(game[r].log[k].placements[1]) = <<CENTER, CENTER + 1>>


\* C28: in every state of a game, the cells marked bonusUsed are the cells
\* that hold a tile: a cell with a tile is marked, a cell without is not.
BonusUsedIffTile ==
  \A r \in reg :
    game[r] # NoGame => game[r].bonusUsed = DOMAIN game[r].board


\* C29: a joker is worth 0 in the bag, on a rack and on the board; it has no
\* letter in the bag and on a rack, and the tile of a board cell that holds a
\* joker has a letter, the one chosen for it.  (The tile of a cell is a copy
\* of the rack tile, {...tile, fromPlayerId, turnPlayed}: its letter and
\* value are those of the tile with its id.)
JokerLaw ==
  \A r \in reg :
    game[r] # NoGame
    => /\ \A i \in DOMAIN game[r].bag :
            TileIsJoker(game[r].bag[i])
            => TileValue(game[r].bag[i]) = 0 /\ TileLetter(game[r].bag[i]) = ""
       /\ \A p \in Range(room[r].players) :
            \A i \in DOMAIN pobj[r][p].rack :
              TileIsJoker(pobj[r][p].rack[i])
              => TileValue(pobj[r][p].rack[i]) = 0 /\ TileLetter(pobj[r][p].rack[i]) = ""
       /\ \A c \in DOMAIN game[r].board :
            TileIsJoker(game[r].board[c].id)
            => TileValue(game[r].board[c].id) = 0 /\ TileLetter(game[r].board[c].id) # ""


\* C30: in every state of a playing room, turnIndex is an index of the
\* player list and the player at that index is the active player.
TurnPointer ==
  \A r \in reg :
    room[r].status = "playing" /\ game[r] # NoGame /\ cont = NoCont
    => /\ game[r].turnIndex \in 0..(Len(room[r].players) - 1)
       /\ room[r].players[game[r].turnIndex + 1] = game[r].activePlayerId


\* a gameEnded message to room r is among the messages
EndAnnounced(msgs, r) ==
  \E i \in DOMAIN msgs : msgs[i].type = "gameEnded" /\ msgs[i].to = r

\* C31: a step that takes a room to status finished emits gameEnded to the
\* room; when the step is the forced pass of a leaveRoom, the rest of the
\* handler emits it if the room is still there.
GameEndedSent ==
  [][\A r \in RoomIds :
       /\ (r \in reg /\ room[r].status # "finished" /\ room'[r].status = "finished")
            => (cont' # NoCont \/ EndAnnounced(out', r))
       /\ (/\ LeaveRoomRemove
           /\ cont.room = r
           /\ r \in reg'
           /\ room[r].status = "finished"
           /\ game[r].consecutivePasses = MAX_CONSECUTIVE_PASSES
           /\ game[r].log[Len(game[r].log)].turnNumber = game[r].version
           /\ game[r].log[Len(game[r].log)].playerId = cont.pid)
            => EndAnnounced(out', r)]_vars


\* the bound of the clock of SpecLive never stops the time of a running turn
ClockNeverCapped ==
  \A t \in Deadlines : t <= MaxLiveNow

\* C32: a room in status playing that stays in the registry reaches status
\* finished, under a fair turn tick and whatever the clients do.
GameTerminates ==
  \A r \in RoomIds :
    (r \in reg /\ room[r].status = "playing")
      ~> (r \notin reg \/ room[r].status = "finished")


\* C33: in every room of the registry a player is marked connected if and
\* only if it is bound to a socket, and the socket it is bound to is open.
ConnectedIffBound ==
  \A r \in reg : \A p \in Range(room[r].players) :
    /\ pobj[r][p].connected <=> pobj[r][p].connectionId # NoConn
    /\ pobj[r][p].connectionId # NoConn => sock[pobj[r][p].connectionId] = "open"


\* C34: a play that commits with n placements fills n distinct cells that
\* were empty, each with the tile of its placement, takes exactly these
\* tiles out of the rack of the player, and no step changes or removes a
\* tile that is on the board.
PlayFillsCells ==
  [][\A r \in RoomIds :
       (IF game[r] = NoGame \/ game'[r] = NoGame THEN FALSE ELSE TRUE)
       => /\ \A c \in DOMAIN game[r].board :
               /\ c \in DOMAIN game'[r].board
               /\ game'[r].board[c] = game[r].board[c]
          /\ \A i \in Slots :
               Commits(i) /\ inflight[i].room = r
               => LET pls == inflight[i].k.placements
                      pid == inflight[i].k.pid
                      cells == { PCell(pls[k]) : k \in DOMAIN pls }
                      tiles == { pls[k].tileId : k \in DOMAIN pls }
                  IN /\ Cardinality(cells) = Len(pls)
                     /\ cells \cap DOMAIN game[r].board = {}
                     /\ DOMAIN game'[r].board = DOMAIN game[r].board \cup cells
                     /\ \A k \in DOMAIN pls :
                          game'[r].board[PCell(pls[k])].id = pls[k].tileId
                     /\ tiles \subseteq Range(pobj[r][pid].rack)
                     /\ tiles \cap Range(pobj'[r][pid].rack) = {}
                     /\ Range(pobj[r][pid].rack) \ tiles \subseteq Range(pobj'[r][pid].rack)]_vars


\* two cells side by side in a row or in a column
Orthogonal(c, d) ==
  \/ c[1] = d[1] /\ (c[2] = d[2] + 1 \/ d[2] = c[2] + 1)
  \/ c[2] = d[2] /\ (c[1] = d[1] + 1 \/ d[1] = c[1] + 1)

\* the cells of occ joined to a cell of S through cells of occ
RECURSIVE Group(_, _)
Group(S, occ) ==
  LET more == S \cup { c \in occ : \E d \in S : Orthogonal(c, d) }
  IN IF more = S THEN S ELSE Group(more, occ)

\* occ is empty, or one orthogonally connected group that holds the centre
OneGroup(occ) ==
  occ # {} => /\ <<CENTER, CENTER>> \in occ
              /\ Group({<<CENTER, CENTER>>}, occ) = occ

\* plays around the tiles of a board: beside them, diagonal to them, apart
\* from them, across them
ProbeShapes ==
  WideShapes \cup
  { Line(9, 7, "row", 1), Line(9, 8, "row", 1), Line(9, 8, "row", 2),
    Line(10, 7, "row", 2),
    Line(6, 6, "col", 2), Line(8, 8, "col", 2), Line(6, 8, "row", 1),
    << <<6, 7, 1>>, <<9, 7, 2>> >>, << <<9, 7, 1>>, <<11, 7, 2>> >>,
    << <<6, 8, 1>>, <<8, 8, 2>> >>, << <<7, 6, 1>>, <<7, 9, 2>> >> }

\* C35: the occupied cells of a board that is not empty are one orthogonally
\* connected group that holds the centre cell, and they still are with the
\* cells of any play that passes the checks of playMove.
BoardConnected ==
  \A r \in reg :
    game[r] # NoGame
    => /\ OneGroup(DOMAIN game[r].board)
       /\ PlayMoveGuard(room[r], game[r], game[r].activePlayerId) = "OK"
          => LET pid == game[r].activePlayerId
             IN \A pls \in PlayInputs(pobj[r][pid].rack, ProbeShapes) :
                  PlayCheck(room[r], pobj[r], game[r], pid, pls).err = "OK"
                  => OneGroup(DOMAIN game[r].board
                                \cup { PCell(pls[k]) : k \in DOMAIN pls })

\* a board of two plays: tiles in the row of the centre and below it
BoardConnectedWitness ==
  \E r \in reg :
    /\ game[r] # NoGame
    /\ Logged(r, "play") >= 2
    /\ \E c \in DOMAIN game[r].board : c[2] # 7
    /\ \E c \in DOMAIN game[r].board : c[2] = 7 /\ c[1] # 7


\* the steps of the status of a room
Forward ==
  { <<"waiting", "waiting">>, <<"waiting", "playing">>, <<"playing", "playing">>,
    <<"playing", "finished">>, <<"finished", "finished">> }

\* C36: while a room is in the registry its status stays as it is or moves
\* from waiting to playing or from playing to finished, whatever the step.
StatusForward ==
  [][\A r \in RoomIds :
       (r \in reg /\ r \in reg') => <<room[r].status, room'[r].status>> \in Forward]_vars

\* a startGame has been refused on a finished room, which stays finished
StatusForwardWitness ==
  \E c \in Conns, r \in reg :
    /\ room[r].status = "finished"
    /\ out = << ErrorMsg(c, "INVALID_STATE") >>

=============================================================================
